---- MODULE Spec2Model ----
(***************************************************************************)
(* Model of the code-to-protocol converter (createConverter) of the        *)
(* language client: every converter function is a pure function of its     *)
(* argument and of the URI strategy captured by createConverter.  A state  *)
(* of the model is the converter (its captured URI strategy) together with *)
(* the call in progress, if any: the function called, the argument, the    *)
(* outcome (value returned or error thrown) and, for asCompletionItem, the *)
(* locals of fillPrimaryInsertText.  Calls are synchronous: one is made    *)
(* when the converter is idle, and its outcome is handed to the caller     *)
(* before the next one.                                                    *)
(*                                                                         *)
(* JavaScript values are modelled as records [t |-> tag, v |-> payload].   *)
(* The tag is the primitive type ("undefined", "null", "boolean",          *)
(* "number", "string") or, for objects, the class the object is an         *)
(* instance of ("Object" for a literal, "Array", "Uri", "Position", ...);  *)
(* the payload of an object is the record of its own properties, the       *)
(* payload of an array is the sequence of its elements.                    *)
(*                                                                         *)
(* Spec is the converter called by value.  SpecOwnership is the converter  *)
(* called by a host that keeps the object it handed over and goes on       *)
(* changing its arrays: there an array of the host carries an identity,    *)
(* and a wire value that holds the same array changes with it.             *)
(*                                                                         *)
(* The other specifications model files.ts and the protocol declarations:  *)
(* SpecResolve is resolve() with its helper process and the channel        *)
(* between them, SpecResolveFair the same with fair event loops and a      *)
(* helper that may reply twice; SpecFileSystem is FileSystem with its memo *)
(* over a file system that changes; SpecGlobalPath is                      *)
(* resolveGlobalNodePath and resolveGlobalYarnPath with the SIGPIPE        *)
(* listeners of the process; SpecModulePath is resolveModulePath over the  *)
(* outcomes of its resolve() calls; SpecProtocol is the evaluation of the  *)
(* request and notification declarations; SpecGuards is the type guards    *)
(* of the registration options.  Paths and command output are sequences    *)
(* of characters there.                                                    *)
(***************************************************************************)
EXTENDS Integers, Sequences, FiniteSets, TLC

\* the converter
VARIABLES uriConverter, call, arg, ret, locals

\* resolve(): the promise it returned, the helper process it forked, the
\* messages in flight in either direction, the 'error' events waiting to be
\* emitted on the child process object, and what went over the channel
VARIABLES promise, child, toChild, toParent, errorEvents, trace


\* FileSystem: the memo of isCaseSensitive(), the platform the process runs
\* on, what the file system answers now when asked whether this file exists
\* under its upper-case and under its lower-case name, how often it was
\* asked, and the calls of isCaseSensitive() and isParent() so far
VARIABLES _isCaseSensitive, platform, exists, probes, fsCalls

\* the listeners of the process for 'SIGPIPE', in the order they were added
VARIABLES listeners

\* resolveModulePath: how far the call is, the calls of resolve() it has
\* made with what became of them, and the promise it returned
VARIABLES stage, attempts, modulePath

\* the protocol: how many declarations of each of its modules have been
\* evaluated
VARIABLES declared

converterVars == <<uriConverter, call, arg, ret, locals>>
resolveVars == <<promise, child, toChild, toParent, errorEvents, trace>>
fileSystemVars == <<_isCaseSensitive, platform, exists, probes, fsCalls>>
globalPathVars == <<listeners>>
modulePathVars == <<stage, attempts, modulePath>>
besidesResolve == <<fileSystemVars, globalPathVars, modulePathVars>>
filesVars == <<resolveVars, besidesResolve>>
protocolVars == <<declared>>
vars == <<converterVars, filesVars, protocolVars>>

---------------------------------------------------------------------------
(* Bounds of the model *)

MaxVersion == 2
MaxLine == 1
MaxEdits == 2
MaxKind == 2

---------------------------------------------------------------------------
(* JavaScript values *)

Undefined == [t |-> "undefined", v |-> 0]
Null == [t |-> "null", v |-> 0]
Bool(b) == [t |-> "boolean", v |-> b]
Num(n) == [t |-> "number", v |-> n]
Str(s) == [t |-> "string", v |-> s]
Obj(cls, fields) == [t |-> cls, v |-> fields]
Arr(elems) == [t |-> "Array", v |-> elems]

Primitives == {"undefined", "null", "boolean", "number", "string"}

\* o.f : reading a property that an object does not have gives undefined
Get(o, f) ==
    IF o.t \in Primitives \cup {"Array"} THEN Undefined
    ELSE IF f \in DOMAIN o.v THEN o.v[f] ELSE Undefined

\* the properties set by `if (cond) { result.f = val; }`
SetIf(cond, f, val) == IF cond THEN f :> val ELSE <<>>

\* the property is there and is not undefined (what JSON.stringify keeps)
Has(o, f) == Get(o, f) # Undefined

\* ToBoolean: !!x, if (x), x && y
Truthy(x) ==
    CASE x.t = "undefined" -> FALSE
      [] x.t = "null" -> FALSE
      [] x.t = "boolean" -> x.v
      [] x.t = "number" -> x.v # 0
      [] x.t = "string" -> x.v # ""
      [] OTHER -> TRUE

\* Is.number, Is.string
IsNumber(x) == x.t = "number"
IsString(x) == x.t = "string"

\* `${x}` for the values a documentation format can hold
ToStr(x) ==
    CASE x.t = "string" -> x.v
      [] x.t = "undefined" -> "undefined"
      [] x.t = "null" -> "null"
      [] OTHER -> "[object Object]"

---------------------------------------------------------------------------
(* Host (editor) values *)

Uri(scheme, path) == Obj("Uri", [scheme |-> scheme, path |-> path])

\* code.Uri.toString()
UriToString(u) == u.v.scheme \o "://" \o u.v.path

HostPosition(l, c) == Obj("Position", [line |-> Num(l), character |-> Num(c)])
HostRange(s, e) == Obj("Range", [start |-> s, end |-> e])

TextDocument(uri, version, text) ==
    Obj("TextDocument",
        [uri |-> uri, languageId |-> Str("typescript"),
         version |-> Num(version), text |-> Str(text)])

\* textDocument.getText()
GetText(doc) == Get(doc, "text")

Uris == {Uri("file", "/a.ts"), Uri("untitled", "Untitled-1")}
Versions == 0 .. MaxVersion
Texts == {"", "abc"}
TextDocuments ==
    {TextDocument(u, n, s) : u \in Uris, n \in Versions, s \in Texts}

Lines == 0 .. MaxLine

\* the ranges of the discrete edits of a change event
EditRanges ==
    {HostRange(HostPosition(0, 0), HostPosition(l, 3)) : l \in Lines}

ContentChange(range, len, text) ==
    Obj("Object", [range |-> range, rangeLength |-> Num(len), text |-> Str(text)])

\* deletions of a range and one insertion at the start of the document
ContentChanges ==
    {ContentChange(r, 3, "") : r \in EditRanges}
    \cup {ContentChange(HostRange(HostPosition(0, 0), HostPosition(0, 0)), 0, "x")}

RECURSIVE SeqsUpTo(_, _)
SeqsUpTo(S, n) ==
    IF n = 0 THEN {<<>>}
    ELSE LET shorter == SeqsUpTo(S, n - 1)
         IN shorter \cup {Append(s, x) : s \in shorter, x \in S}

ChangeEvent(doc, changes) ==
    Obj("TextDocumentChangeEvent",
        [document |-> doc, contentChanges |-> Arr(changes)])

ChangeEventDocuments ==
    {TextDocument(u, n, "abc") : u \in Uris, n \in Versions}

ChangeEvents ==
    {ChangeEvent(d, cs) : d \in ChangeEventDocuments,
                          cs \in SeqsUpTo(ContentChanges, MaxEdits)}

\* objects that are neither a text document nor a change event
OtherChangeArgs ==
    {Obj("Object", [text |-> Str("abc")]),
     Obj("Object", [uri |-> Uri("file", "/a.ts")]),
     Obj("Object", [version |-> Num(1)]),
     Obj("Object", [document |-> TextDocument(Uri("file", "/a.ts"), 1, "abc")]),
     Obj("Object", [contentChanges |-> Arr(<<>>)])}

ChangeArgs == TextDocuments \cup ChangeEvents \cup OtherChangeArgs

---------------------------------------------------------------------------
(* createConverter: the URI strategy *)

UriStrategies == {"nullConverter", "custom"}

\* nullConverter: value.toString()
nullConverter(value) == Str(UriToString(value))

\* an injected strategy: remaps every resource to a virtual scheme
customConverter(value) == Str("vfs:" \o value.v.path)

\* _uriConverter(value), with _uriConverter = uriConverter || nullConverter
ApplyUriConverter(strategy, value) ==
    IF strategy = "custom" THEN customConverter(value) ELSE nullConverter(value)

asUri_NativeToString(strategy, value) == nullConverter(value)

asUri(strategy, value) == ApplyUriConverter(strategy, value)

asTextDocumentIdentifier(strategy, textDocument) ==
    Obj("Object", [uri |-> ApplyUriConverter(strategy, Get(textDocument, "uri"))])

asVersionedTextDocumentIdentifier(strategy, textDocument) ==
    Obj("Object",
        [uri |-> ApplyUriConverter(strategy, Get(textDocument, "uri")),
         version |-> Get(textDocument, "version")])

---------------------------------------------------------------------------
(* Outcomes of a call *)

Return(value) == [kind |-> "return", value |-> value]
Throw(message) == [kind |-> "throw", value |-> Str(message)]
NoOutcome == [kind |-> "none", value |-> Undefined]

---------------------------------------------------------------------------
(* asChangeTextDocumentParams *)

isTextDocumentChangeEvent(value) ==
    Truthy(Get(value, "document")) /\ Truthy(Get(value, "contentChanges"))

isTextDocument(value) ==
    Truthy(Get(value, "uri")) /\ Truthy(Get(value, "version"))

\* the callback of contentChanges.map
asContentChange(change) ==
    LET range == Get(change, "range")
    IN Obj("Object",
           [range |->
                Obj("Object",
                    [start |->
                         Obj("Object",
                             [line |-> Get(Get(range, "start"), "line"),
                              character |-> Get(Get(range, "start"), "character")]),
                     end |->
                         Obj("Object",
                             [line |-> Get(Get(range, "end"), "line"),
                              character |-> Get(Get(range, "end"), "character")])]),
            rangeLength |-> Get(change, "rangeLength"),
            text |-> Get(change, "text")])

\* mutant: the changes are emitted last first
asContentChanges_Reversed(changes) ==
    Arr([i \in 1 .. Len(changes.v) |->
            asContentChange(changes.v[Len(changes.v) + 1 - i])])

\* arg.contentChanges.map(...)
asContentChanges(changes) ==
    Arr([i \in 1 .. Len(changes.v) |-> asContentChange(changes.v[i])])

asChangeTextDocumentParams(strategy, a) ==
    IF isTextDocument(a)
    THEN Return(Obj("Object",
             [textDocument |->
                  Obj("Object",
                      [uri |-> ApplyUriConverter(strategy, Get(a, "uri")),
                       version |-> Get(a, "version")]),
              contentChanges |-> Arr(<<Obj("Object", [text |-> GetText(a)])>>)]))
    ELSE IF isTextDocumentChangeEvent(a)
    THEN LET document == Get(a, "document")
         IN Return(Obj("Object",
                [textDocument |->
                     Obj("Object",
                         [uri |-> ApplyUriConverter(strategy, Get(document, "uri")),
                          version |-> Get(document, "version")]),
                 contentChanges |-> asContentChanges(Get(a, "contentChanges"))]))
    ELSE Throw("Unsupported text document change parameter")

---------------------------------------------------------------------------
(* Positions and ranges *)

asPosition_OriginForNull(value) ==
    IF value = Undefined THEN value
    ELSE IF value = Null
         THEN Obj("Object", [line |-> Num(0), character |-> Num(0)])
         ELSE Obj("Object",
                  [line |-> Get(value, "line"),
                   character |-> Get(value, "character")])

asPosition(value) ==
    IF value = Undefined \/ value = Null THEN value
    ELSE Obj("Object",
             [line |-> Get(value, "line"), character |-> Get(value, "character")])

asRange(value) ==
    IF value = Undefined \/ value = Null THEN value
    ELSE Obj("Object",
             [start |-> asPosition(Get(value, "start")),
              end |-> asPosition(Get(value, "end"))])

---------------------------------------------------------------------------
(* Host completion items *)

SnippetString(value) == Obj("SnippetString", [value |-> Str(value)])
MarkdownString(value) == Obj("MarkdownString", [value |-> Str(value)])
HostTextEdit(range, newText) ==
    Obj("TextEdit", [range |-> range, newText |-> Str(newText)])

\* the ranges a completion item or its text edit can carry
ItemRanges ==
    {HostRange(HostPosition(l, 0), HostPosition(l, 3)) : l \in Lines}

InsertTexts ==
    {Undefined, Str(""), Str("foo"), SnippetString(""), SnippetString("foo($1)")}
ItemTextEdits ==
    {Undefined} \cup {HostTextEdit(r, s) : r \in ItemRanges, s \in {"", "bar"}}
OptionalItemRanges == {Undefined} \cup ItemRanges
FromEditFlags == {Undefined, Bool(TRUE)}
Documentations ==
    {Undefined, Str(""), Str("doc"), MarkdownString("**doc**")}
DocumentationFormats ==
    {Undefined, Str("$string"), Str("plaintext"), Str("markdown"), Str("html")}
ItemKinds == {Undefined} \cup {Num(k) : k \in 0 .. MaxKind}
OriginalItemKinds == {Undefined, Num(0), Num(MaxKind + 5)}

\* a code.CompletionItem built by the host
PlainCompletionItems ==
    {Obj("CompletionItem",
         [label |-> Str("fooItem"), insertText |-> it, textEdit |-> te,
          range |-> rg, documentation |-> doc, kind |-> k]) :
        it \in InsertTexts, te \in ItemTextEdits, rg \in OptionalItemRanges,
        doc \in Documentations, k \in ItemKinds}

\* a ProtocolCompletionItem: a code.CompletionItem that also records what
\* the wire item it was built from held
ProtocolCompletionItems ==
    {Obj("ProtocolCompletionItem",
         [label |-> Str("fooItem"), insertText |-> it, textEdit |-> te,
          range |-> rg, fromEdit |-> fe, documentation |-> doc,
          documentationFormat |-> fmt, kind |-> k, originalItemKind |-> o]) :
        it \in InsertTexts, te \in ItemTextEdits, rg \in OptionalItemRanges,
        fe \in FromEditFlags, doc \in Documentations,
        fmt \in DocumentationFormats, k \in ItemKinds, o \in OriginalItemKinds}

HostCommand(title, command, arguments) ==
    Obj("Object", [title |-> Str(title), command |-> Str(command),
                   arguments |-> arguments])

\* items that make use of the other optional properties of a completion item
DecoratedCompletionItems ==
    {Obj(cls,
         [label |-> Str("fooItem"), insertText |-> Str("foo"),
          detail |-> Str("detail"), filterText |-> Str("filter"),
          sortText |-> Str("sort"), kind |-> Num(0),
          additionalTextEdits |-> Arr(<<HostTextEdit(r, "import foo;")>>),
          commitCharacters |-> Arr(<<Str("."), Str(";")>>),
          command |-> HostCommand("Run", "editor.run", args),
          preselect |-> Bool(pre), data |-> Num(7), deprecated |-> Bool(FALSE)]) :
        cls \in {"CompletionItem", "ProtocolCompletionItem"},
        r \in ItemRanges, args \in {Undefined, Arr(<<Str("a")>>)},
        pre \in BOOLEAN}

CompletionItems ==
    PlainCompletionItems \cup ProtocolCompletionItems
        \cup DecoratedCompletionItems

---------------------------------------------------------------------------
(* asCompletionItem *)

asTextEdit(edit) ==
    Obj("Object",
        [range |-> asRange(Get(edit, "range")), newText |-> Get(edit, "newText")])

asTextEdits(edits) ==
    IF edits = Undefined \/ edits = Null THEN edits
    ELSE Arr([i \in 1 .. Len(edits.v) |-> asTextEdit(edits.v[i])])

asCommand(item) ==
    Obj("Object",
        [title |-> Get(item, "title"), command |-> Get(item, "command")]
        @@ SetIf(Truthy(Get(item, "arguments")), "arguments", Get(item, "arguments")))

PlainText == 1
Snippet == 2

\* mutant: an unrecognized format is wrapped like a recognized one
asDocumentation_WrapsAnyKind(format, documentation) ==
    CASE format = Str("$string") -> documentation
      [] format = Str("markdown") ->
            Obj("Object", [kind |-> format, value |-> Get(documentation, "value")])
      [] OTHER ->
            Obj("Object", [kind |-> format, value |-> documentation])

asDocumentation(format, documentation) ==
    CASE format = Str("$string") -> documentation
      [] format = Str("plaintext") ->
            Obj("Object", [kind |-> format, value |-> documentation])
      [] format = Str("markdown") ->
            Obj("Object", [kind |-> format, value |-> Get(documentation, "value")])
      [] OTHER ->
            Str("Unsupported Markup content received. Kind is: " \o ToStr(format))

\* mutant: the recorded original kind is tested for truthiness
asCompletionItemKind_Truthy(value, original) ==
    IF Truthy(original) THEN original ELSE Num(value.v + 1)

asCompletionItemKind(value, original) ==
    IF original # Undefined THEN original ELSE Num(value.v + 1)

\* mutant: the snippet branch is tried before the text edit
PrimaryChoice_SnippetFirst(source) ==
    IF Get(source, "insertText").t = "SnippetString"
    THEN [format |-> Num(Snippet),
          text |-> Get(Get(source, "insertText"), "value"),
          range |-> Undefined]
    ELSE IF Truthy(Get(source, "textEdit"))
    THEN [format |-> Num(PlainText),
          text |-> Get(Get(source, "textEdit"), "newText"),
          range |-> asRange(Get(Get(source, "textEdit"), "range"))]
    ELSE [format |-> Num(PlainText),
          text |-> Get(source, "insertText"),
          range |-> Undefined]

\* mutant: the snippet branch forgets to set the format
PrimaryChoice_SnippetAsPlain(source) ==
    IF Truthy(Get(source, "textEdit"))
    THEN [format |-> Num(PlainText),
          text |-> Get(Get(source, "textEdit"), "newText"),
          range |-> asRange(Get(Get(source, "textEdit"), "range"))]
    ELSE IF Get(source, "insertText").t = "SnippetString"
    THEN [format |-> Num(PlainText),
          text |-> Get(Get(source, "insertText"), "value"),
          range |-> Undefined]
    ELSE [format |-> Num(PlainText),
          text |-> Get(source, "insertText"),
          range |-> Undefined]

\* the locals of fillPrimaryInsertText after its if/else-if/else chain
PrimaryChoice(source) ==
    IF Truthy(Get(source, "textEdit"))
    THEN [format |-> Num(PlainText),
          text |-> Get(Get(source, "textEdit"), "newText"),
          range |-> asRange(Get(Get(source, "textEdit"), "range"))]
    ELSE IF Get(source, "insertText").t = "SnippetString"
    THEN [format |-> Num(Snippet),
          text |-> Get(Get(source, "insertText"), "value"),
          range |-> Undefined]
    ELSE [format |-> Num(PlainText),
          text |-> Get(source, "insertText"),
          range |-> Undefined]

\* mutant: the range of the item only fills in a missing range
RangeOverride_OnlyIfMissing(source, chosen) ==
    IF Truthy(Get(source, "range")) /\ chosen.range = Undefined
    THEN [chosen EXCEPT !.range = asRange(Get(source, "range"))]
    ELSE chosen

\* the locals after the range of the item has been looked at
RangeOverride(source, chosen) ==
    IF Truthy(Get(source, "range"))
    THEN [chosen EXCEPT !.range = asRange(Get(source, "range"))]
    ELSE chosen

\* whether the target gets a textEdit rather than an insertText
EmitsTextEdit(source, l) ==
    Truthy(Get(source, "fromEdit")) /\ Truthy(l.text) /\ Truthy(l.range)

FillLocals(source) ==
    [chosen |-> PrimaryChoice(source),
     final |-> RangeOverride(source, PrimaryChoice(source))]

\* mutant: a missing text is replaced by the label of the item
fillPrimaryInsertText_LabelFallback(target, source) ==
    LET l == FillLocals(source).final
    IN Obj(target.t,
           ("insertTextFormat" :> l.format)
           @@ (IF EmitsTextEdit(source, l)
               THEN "textEdit" :> Obj("Object", [newText |-> l.text, range |-> l.range])
               ELSE "insertText" :>
                        (IF l.text = Undefined THEN Get(source, "label") ELSE l.text))
           @@ target.v)

fillPrimaryInsertText(target, source) ==
    LET l == FillLocals(source).final
    IN Obj(target.t,
           ("insertTextFormat" :> l.format)
           @@ (IF EmitsTextEdit(source, l)
               THEN "textEdit" :> Obj("Object", [newText |-> l.text, range |-> l.range])
               ELSE "insertText" :> l.text)
           @@ target.v)

\* the documentation of the wire item
ItemDocumentation(item, isProtocolItem) ==
    IF ~isProtocolItem \/ Get(item, "documentationFormat") = Str("$string")
    THEN Get(item, "documentation")
    ELSE asDocumentation(Get(item, "documentationFormat"), Get(item, "documentation"))

asCompletionItem(item) ==
    LET isProtocolItem == item.t = "ProtocolCompletionItem"
        beforeFill ==
            Obj("Object",
                [label |-> Get(item, "label")]
                @@ SetIf(Truthy(Get(item, "detail")), "detail", Get(item, "detail"))
                @@ SetIf(Truthy(Get(item, "documentation")), "documentation",
                         ItemDocumentation(item, isProtocolItem))
                @@ SetIf(Truthy(Get(item, "filterText")), "filterText",
                         Get(item, "filterText")))
        afterFill ==
            SetIf(IsNumber(Get(item, "kind")), "kind",
                  asCompletionItemKind(Get(item, "kind"),
                      IF isProtocolItem
                      THEN Get(item, "originalItemKind") ELSE Undefined))
            @@ SetIf(Truthy(Get(item, "sortText")), "sortText", Get(item, "sortText"))
            @@ SetIf(Truthy(Get(item, "additionalTextEdits")), "additionalTextEdits",
                     asTextEdits(Get(item, "additionalTextEdits")))
            \* commitCharacters.slice(): a new array with the same elements
            @@ SetIf(Truthy(Get(item, "commitCharacters")), "commitCharacters",
                     Arr(Get(item, "commitCharacters").v))
            @@ SetIf(Truthy(Get(item, "command")), "command",
                     asCommand(Get(item, "command")))
            @@ SetIf(Get(item, "preselect").t = "boolean", "preselect",
                     Get(item, "preselect"))
            @@ SetIf(isProtocolItem /\ Get(item, "data") # Undefined, "data",
                     Get(item, "data"))
            @@ SetIf(isProtocolItem /\ Get(item, "deprecated").t = "boolean",
                     "deprecated", Get(item, "deprecated"))
    IN Obj("Object", afterFill @@ fillPrimaryInsertText(beforeFill, item).v)

---------------------------------------------------------------------------
(* Saving documents *)

\* a call f(a1, ..., an) with more than one argument holds its arguments in
\* an arguments object; an argument the caller leaves out is undefined
Arguments(fields) == Obj("Arguments", fields)

\* the includeContent argument as callers give it: left out, false, true
IncludeContentFlags == {Undefined, Bool(FALSE), Bool(TRUE)}

SaveArgs ==
    {Arguments([textDocument |-> d, includeContent |-> f]) :
        d \in TextDocuments, f \in IncludeContentFlags}

\* the default value of a parameter applies when the argument is undefined
DefaultTo(value, default) == IF value = Undefined THEN default ELSE value

asSaveTextDocumentParams_ContentByDefault(strategy, textDocument, flag) ==
    LET includeContent == DefaultTo(flag, Bool(TRUE))
    IN Obj("Object",
           [textDocument |->
                asVersionedTextDocumentIdentifier(strategy, textDocument)]
           @@ SetIf(Truthy(includeContent), "text", GetText(textDocument)))

asSaveTextDocumentParams(strategy, textDocument, flag) ==
    LET includeContent == DefaultTo(flag, Bool(FALSE))
    IN Obj("Object",
           [textDocument |->
                asVersionedTextDocumentIdentifier(strategy, textDocument)]
           @@ SetIf(Truthy(includeContent), "text", GetText(textDocument)))

\* the members of the host's and of the protocol's TextDocumentSaveReason
CodeTextDocumentSaveReason == [Manual |-> 1, AfterDelay |-> 2, FocusOut |-> 3]
ProtoTextDocumentSaveReason == [Manual |-> 1, AfterDelay |-> 2, FocusOut |-> 3]

\* the reasons a will-save event may carry: the three members and, on
\* either side of them, values that are no member
MaxReason == 4
HostReasons == {Num(n) : n \in 0..MaxReason}

asTextDocumentSaveReason_Identity(reason) == reason

asTextDocumentSaveReason(reason) ==
    CASE reason = Num(CodeTextDocumentSaveReason.Manual) ->
             Num(ProtoTextDocumentSaveReason.Manual)
      [] reason = Num(CodeTextDocumentSaveReason.AfterDelay) ->
             Num(ProtoTextDocumentSaveReason.AfterDelay)
      [] reason = Num(CodeTextDocumentSaveReason.FocusOut) ->
             Num(ProtoTextDocumentSaveReason.FocusOut)
      [] OTHER -> Num(ProtoTextDocumentSaveReason.Manual)

TextDocumentWillSaveEvent(document, reason) ==
    Obj("TextDocumentWillSaveEvent", [document |-> document, reason |-> reason])

WillSaveEvents ==
    {TextDocumentWillSaveEvent(d, r) : d \in TextDocuments, r \in HostReasons}

asWillSaveTextDocumentParams(strategy, event) ==
    Obj("Object",
        [textDocument |->
             asTextDocumentIdentifier(strategy, Get(event, "document")),
         reason |-> asTextDocumentSaveReason(Get(event, "reason"))])

---------------------------------------------------------------------------
(* Locations *)

HostLocation(uri, range) == Obj("Location", [uri |-> uri, range |-> range])

\* what a caller may hand over where the host has nothing to convert
Sentinels == {Undefined, Null}

HostPositions == {HostPosition(l, c) : l \in Lines, c \in {0, 3}}
HostRanges ==
    {HostRange(s, e) : s \in {HostPosition(0, 0)}, e \in HostPositions}
HostLocations == {HostLocation(u, r) : u \in Uris, r \in HostRanges}

\* proto.Location.create(uri, range)
LocationCreate(uri, range) == Obj("Object", [uri |-> uri, range |-> range])

asLocation(strategy, value) ==
    IF value = Undefined \/ value = Null THEN value
    ELSE LocationCreate(asUri(strategy, Get(value, "uri")),
                        asRange(Get(value, "range")))

---------------------------------------------------------------------------
(* Diagnostics *)

\* the members of the host's and of the protocol's DiagnosticSeverity and
\* DiagnosticTag
CodeDiagnosticSeverity ==
    [Error |-> 0, Warning |-> 1, Information |-> 2, Hint |-> 3]
ProtoDiagnosticSeverity ==
    [Error |-> 1, Warning |-> 2, Information |-> 3, Hint |-> 4]
CodeDiagnosticTag == [Unnecessary |-> 1, Deprecated |-> 2]
ProtoDiagnosticTag == [Unnecessary |-> 1, Deprecated |-> 2]

\* Array.isArray
IsArray(x) == x.t = "Array"

asDiagnosticSeverity_Unshifted(value) ==
    CASE value = Num(CodeDiagnosticSeverity.Error) ->
             Num(CodeDiagnosticSeverity.Error)
      [] value = Num(CodeDiagnosticSeverity.Warning) ->
             Num(CodeDiagnosticSeverity.Warning)
      [] value = Num(CodeDiagnosticSeverity.Information) ->
             Num(CodeDiagnosticSeverity.Information)
      [] value = Num(CodeDiagnosticSeverity.Hint) ->
             Num(CodeDiagnosticSeverity.Hint)
      [] OTHER -> Undefined

\* a switch without default: the function ends without a return statement
\* for any other value, which gives undefined
asDiagnosticSeverity(value) ==
    CASE value = Num(CodeDiagnosticSeverity.Error) ->
             Num(ProtoDiagnosticSeverity.Error)
      [] value = Num(CodeDiagnosticSeverity.Warning) ->
             Num(ProtoDiagnosticSeverity.Warning)
      [] value = Num(CodeDiagnosticSeverity.Information) ->
             Num(ProtoDiagnosticSeverity.Information)
      [] value = Num(CodeDiagnosticSeverity.Hint) ->
             Num(ProtoDiagnosticSeverity.Hint)
      [] OTHER -> Undefined

asDiagnosticTag_PassThrough(tag) ==
    CASE tag = Num(CodeDiagnosticTag.Unnecessary) ->
             Num(ProtoDiagnosticTag.Unnecessary)
      [] tag = Num(CodeDiagnosticTag.Deprecated) ->
             Num(ProtoDiagnosticTag.Deprecated)
      [] OTHER -> tag

asDiagnosticTag(tag) ==
    CASE tag = Num(CodeDiagnosticTag.Unnecessary) ->
             Num(ProtoDiagnosticTag.Unnecessary)
      [] tag = Num(CodeDiagnosticTag.Deprecated) ->
             Num(ProtoDiagnosticTag.Deprecated)
      [] OTHER -> Undefined

IsDefined(x) == x # Undefined

asDiagnosticTags_EmptyList(tags) ==
    IF ~Truthy(tags) THEN Undefined
    ELSE LET converted == [i \in 1..Len(tags.v) |-> asDiagnosticTag(tags.v[i])]
         IN Arr(SelectSeq(converted, IsDefined))

\* the loop pushes the converted tags that are not undefined, in order
asDiagnosticTags(tags) ==
    IF ~Truthy(tags) THEN Undefined
    ELSE LET converted == [i \in 1..Len(tags.v) |-> asDiagnosticTag(tags.v[i])]
             result == SelectSeq(converted, IsDefined)
         IN IF Len(result) > 0 THEN Arr(result) ELSE Undefined

asRelatedInformation(strategy, item) ==
    Obj("Object",
        [message |-> Get(item, "message"),
         location |-> asLocation(strategy, Get(item, "location"))])

asRelatedInformations(strategy, items) ==
    Arr([i \in 1..Len(items.v) |-> asRelatedInformation(strategy, items.v[i])])

\* proto.Diagnostic.create(range, message)
DiagnosticCreate(range, message) ==
    Obj("Object", [range |-> range, message |-> message])

asDiagnostic_SourceOnlyWithCode(strategy, item) ==
    LET range == Get(item, "range")
        message == Get(item, "message")
        severity == Get(item, "severity")
        code == Get(item, "code")
        tags == Get(item, "tags")
        relatedInformation == Get(item, "relatedInformation")
        source == Get(item, "source")
    IN Obj("Object",
           DiagnosticCreate(asRange(range), message).v
           @@ SetIf(IsNumber(severity), "severity",
                    asDiagnosticSeverity(severity))
           @@ SetIf(IsNumber(code) \/ IsString(code), "code", code)
           @@ SetIf(IsArray(tags), "tags", asDiagnosticTags(tags))
           @@ SetIf(Truthy(relatedInformation), "relatedInformation",
                    asRelatedInformations(strategy, relatedInformation))
           @@ SetIf(Truthy(source) /\ IsDefined(code), "source", source))

asDiagnostic(strategy, item) ==
    LET range == Get(item, "range")
        message == Get(item, "message")
        severity == Get(item, "severity")
        code == Get(item, "code")
        tags == Get(item, "tags")
        relatedInformation == Get(item, "relatedInformation")
        source == Get(item, "source")
    IN Obj("Object",
           DiagnosticCreate(asRange(range), message).v
           @@ SetIf(IsNumber(severity), "severity",
                    asDiagnosticSeverity(severity))
           @@ SetIf(IsNumber(code) \/ IsString(code), "code", code)
           @@ SetIf(IsArray(tags), "tags", asDiagnosticTags(tags))
           @@ SetIf(Truthy(relatedInformation), "relatedInformation",
                    asRelatedInformations(strategy, relatedInformation))
           @@ SetIf(Truthy(source), "source", source))

asDiagnostics(strategy, items) ==
    IF items = Undefined \/ items = Null THEN items
    ELSE Arr([i \in 1..Len(items.v) |-> asDiagnostic(strategy, items.v[i])])

\* Host diagnostics

DiagnosticRelatedInformation(location, message) ==
    Obj("DiagnosticRelatedInformation",
        [location |-> location, message |-> Str(message)])

HostDiagnostic(range, message, fields) ==
    Obj("Diagnostic", [range |-> range, message |-> Str(message)] @@ fields)

\* a property the host object has when the value is not undefined
Optional(f, value) == IF value = Undefined THEN <<>> ELSE f :> value

MaxTags == 2

\* the four levels, or none
HostSeverities ==
    {Undefined} \cup
    {Num(CodeDiagnosticSeverity[l]) : l \in DOMAIN CodeDiagnosticSeverity}

\* the two tags of the host and a value that is no tag
HostTags ==
    {Num(CodeDiagnosticTag.Unnecessary), Num(CodeDiagnosticTag.Deprecated),
     Num(3)}

HostTagLists == {Undefined} \cup {Arr(s) : s \in SeqsUpTo(HostTags, MaxTags)}

HostCodes == {Undefined, Num(0), Str("E1")}

HostSources == {Undefined, Str(""), Str("ts")}

RelatedDeclaration ==
    DiagnosticRelatedInformation(
        HostLocation(Uri("file", "/a.ts"),
                     HostRange(HostPosition(0, 0), HostPosition(0, 3))),
        "declared here")
RelatedUse ==
    DiagnosticRelatedInformation(
        HostLocation(Uri("untitled", "Untitled-1"),
                     HostRange(HostPosition(0, 0), HostPosition(MaxLine, 0))),
        "used here")

HostRelatedInformations ==
    {Undefined, Arr(<<>>), Arr(<<RelatedDeclaration>>),
     Arr(<<RelatedDeclaration, RelatedUse>>),
     Arr(<<RelatedUse, RelatedDeclaration>>)}

HostDiagnostics ==
    {HostDiagnostic(
         HostRange(HostPosition(0, 0), HostPosition(0, 3)), "unused",
         Optional("severity", severity) @@ Optional("code", code)
         @@ Optional("tags", tags)
         @@ Optional("relatedInformation", relatedInformation)
         @@ Optional("source", source)) :
        severity \in HostSeverities, code \in HostCodes,
        tags \in HostTagLists,
        relatedInformation \in HostRelatedInformations,
        source \in HostSources}

---------------------------------------------------------------------------
(* asCodeActionContext *)

CodeActionKind(value) == Obj("CodeActionKind", [value |-> Str(value)])

HostCodeActionContext(diagnostics, fields) ==
    Obj("CodeActionContext", [diagnostics |-> Arr(diagnostics)] @@ fields)

\* no kind filter, the empty kind (every action), one kind
HostKindFilters ==
    {Undefined, CodeActionKind(""), CodeActionKind("quickfix")}

UnusedWarning ==
    HostDiagnostic(HostRange(HostPosition(0, 0), HostPosition(0, 3)), "unused",
                   "severity" :> Num(CodeDiagnosticSeverity.Warning))
MissingError ==
    HostDiagnostic(HostRange(HostPosition(0, 0), HostPosition(MaxLine, 0)),
                   "missing",
                   "severity" :> Num(CodeDiagnosticSeverity.Error)
                   @@ "source" :> Str("ts"))

MaxDiagnostics == 2

HostCodeActionContexts ==
    {HostCodeActionContext(diagnostics, Optional("only", kind)) :
        diagnostics \in SeqsUpTo({UnusedWarning, MissingError}, MaxDiagnostics),
        kind \in HostKindFilters}

\* proto.CodeActionContext.create(diagnostics, only): only is set when it
\* is given
CodeActionContextCreate(diagnostics, only) ==
    Obj("Object",
        [diagnostics |-> diagnostics]
        @@ SetIf(only # Undefined /\ only # Null, "only", only))

asCodeActionContext_EmptyOnly(strategy, context) ==
    IF context = Undefined \/ context = Null THEN context
    ELSE LET kind == Get(context, "only")
             only == IF Truthy(kind) /\ IsString(Get(kind, "value"))
                     THEN Arr(<<Get(kind, "value")>>)
                     ELSE Arr(<<>>)
         IN CodeActionContextCreate(
                asDiagnostics(strategy, Get(context, "diagnostics")), only)

asCodeActionContext(strategy, context) ==
    IF context = Undefined \/ context = Null THEN context
    ELSE LET kind == Get(context, "only")
             only == IF Truthy(kind) /\ IsString(Get(kind, "value"))
                     THEN Arr(<<Get(kind, "value")>>)
                     ELSE Undefined
         IN CodeActionContextCreate(
                asDiagnostics(strategy, Get(context, "diagnostics")), only)

---------------------------------------------------------------------------
(* Requests and notifications about a document *)

asOpenTextDocumentParams(strategy, textDocument) ==
    Obj("Object",
        [textDocument |->
             Obj("Object",
                 [uri |-> ApplyUriConverter(strategy, Get(textDocument, "uri")),
                  languageId |-> Get(textDocument, "languageId"),
                  version |-> Get(textDocument, "version"),
                  text |-> GetText(textDocument)])])

\* asCloseTextDocumentParams, asDocumentSymbolParams, asCodeLensParams and
\* asDocumentLinkParams are the same function of the document
asIdentifierParams(strategy, textDocument) ==
    Obj("Object",
        [textDocument |-> asTextDocumentIdentifier(strategy, textDocument)])

asWorkerPosition(position) ==
    Obj("Object",
        [line |-> Get(position, "line"),
         character |-> Get(position, "character")])

asTextDocumentPositionParams(strategy, textDocument, position) ==
    Obj("Object",
        [textDocument |-> asTextDocumentIdentifier(strategy, textDocument),
         position |-> asWorkerPosition(position)])

\* the members of the host's and of the protocol's CompletionTriggerKind
CodeCompletionTriggerKind ==
    [Invoke |-> 0, TriggerCharacter |-> 1, TriggerForIncompleteCompletions |-> 2]
ProtoCompletionTriggerKind ==
    [Invoked |-> 1, TriggerCharacter |-> 2, TriggerForIncompleteCompletions |-> 3]

\* the other enumerations of the protocol
ProtoTextDocumentSyncKind == [None |-> 0, Full |-> 1, Incremental |-> 2]
ProtoFileChangeType == [Created |-> 1, Changed |-> 2, Deleted |-> 3]

\* a variant that sends the host's number as it is
asTriggerKind_Identity(triggerKind) == triggerKind

asTriggerKind(triggerKind) ==
    CASE triggerKind = Num(CodeCompletionTriggerKind.TriggerCharacter) ->
             Num(ProtoCompletionTriggerKind.TriggerCharacter)
      [] triggerKind
             = Num(CodeCompletionTriggerKind.TriggerForIncompleteCompletions) ->
             Num(ProtoCompletionTriggerKind.TriggerForIncompleteCompletions)
      [] OTHER -> Num(ProtoCompletionTriggerKind.Invoked)

asCompletionParams(strategy, textDocument, position, context) ==
    Obj("Object",
        [textDocument |-> asTextDocumentIdentifier(strategy, textDocument),
         position |-> asWorkerPosition(position),
         context |->
             Obj("Object",
                 [triggerKind |-> asTriggerKind(Get(context, "triggerKind")),
                  triggerCharacter |-> Get(context, "triggerCharacter")])])

asReferenceParams(strategy, textDocument, position, options) ==
    Obj("Object",
        [textDocument |-> asTextDocumentIdentifier(strategy, textDocument),
         position |-> asWorkerPosition(position),
         context |->
             Obj("Object",
                 [includeDeclaration |-> Get(options, "includeDeclaration")])])

\* proto.DocumentLink.create(range)
DocumentLinkCreate(range) == Obj("Object", [range |-> range])

asDocumentLink(strategy, item) ==
    LET target == Get(item, "target")
        protocolItem == IF item.t = "ProtocolDocumentLink" THEN item
                        ELSE Undefined
        data == Get(protocolItem, "data")
    IN Obj("Object",
           DocumentLinkCreate(asRange(Get(item, "range"))).v
           @@ SetIf(Truthy(target), "target", asUri(strategy, target))
           @@ SetIf(Truthy(protocolItem) /\ Truthy(data), "data", data))

\* Arguments of these calls

PositionArgs ==
    {Arguments([textDocument |-> d, position |-> p]) :
        d \in TextDocuments, p \in HostPositions}

\* the trigger kinds a host passes: the members of its enumeration, a
\* number beyond them, and none
MaxTriggerKind == 3
HostTriggerKinds == {Num(k) : k \in 0..MaxTriggerKind} \cup {Undefined}

CompletionContexts ==
    {Obj("Object", [triggerKind |-> k] @@ Optional("triggerCharacter", c)) :
        k \in HostTriggerKinds, c \in {Undefined, Str(".")}}

CompletionArgs ==
    {Arguments([textDocument |-> d, position |-> p, context |-> c]) :
        d \in TextDocuments, p \in HostPositions, c \in CompletionContexts}

ReferenceArgs ==
    {Arguments([textDocument |-> d, position |-> p,
                options |-> Obj("Object", [includeDeclaration |-> Bool(b)])]) :
        d \in TextDocuments, p \in HostPositions, b \in BOOLEAN}

\* links made by the host and links that came from the server, with or
\* without a target, with or without a data property
HostDocumentLinks ==
    {Obj(cls, [range |-> r] @@ Optional("target", t) @@ Optional("data", d)) :
        cls \in {"DocumentLink", "ProtocolDocumentLink"},
        r \in ItemRanges, t \in {Undefined} \cup Uris,
        d \in {Undefined, Null, Num(0), Str("link-1")}}

\* the functions that take a document and return {textDocument: identifier}
IdentifierParamsFunctions ==
    {"asCloseTextDocumentParams", "asDocumentSymbolParams",
     "asCodeLensParams", "asDocumentLinkParams"}

---------------------------------------------------------------------------
(* Resolve data *)

\* proto.CodeLens.create(range)
CodeLensCreate(range) == Obj("Object", [range |-> range])

asCodeLens_DataOfAnyLens(item) ==
    LET command == Get(item, "command")
        data == Get(item, "data")
    IN Obj("Object",
           CodeLensCreate(asRange(Get(item, "range"))).v
           @@ SetIf(Truthy(command), "command", asCommand(command))
           @@ SetIf(TRUE /\ Truthy(data), "data", data))

asCodeLens(item) ==
    LET command == Get(item, "command")
        data == Get(item, "data")
    IN Obj("Object",
           CodeLensCreate(asRange(Get(item, "range"))).v
           @@ SetIf(Truthy(command), "command", asCommand(command))
           @@ SetIf(item.t = "ProtocolCodeLens" /\ Truthy(data), "data", data))

\* what a data property may hold: falsy values, a number, a string, an
\* object
ResolveData ==
    {Undefined, Null, Num(0), Str(""), Str("id-1"),
     Obj("Object", [id |-> Num(7)])}

\* lenses made by the host and lenses that came from the server
HostCodeLenses ==
    {Obj(cls, [range |-> r] @@ Optional("command", c) @@ Optional("data", d)) :
        cls \in {"CodeLens", "ProtocolCodeLens"}, r \in ItemRanges,
        c \in {Undefined, HostCommand("Run", "editor.run", Undefined)},
        d \in ResolveData}

\* completion items of either class with a data property
DataCompletionItems ==
    {Obj(cls, [label |-> Str("fooItem"), insertText |-> Str("foo")]
              @@ Optional("data", d)) :
        cls \in {"CompletionItem", "ProtocolCompletionItem"},
        d \in ResolveData}

---------------------------------------------------------------------------
(* The state of resolve() *)

\* a promise: not created yet, pending, or settled with a value or a reason
NoPromise == [state |-> "none", value |-> Undefined]
Pending == [state |-> "pending", value |-> Undefined]
Fulfilled(value) == [state |-> "fulfilled", value |-> value]
Rejected(reason) == [state |-> "rejected", value |-> reason]

\* a variant in which every call of resolve or reject settles the promise anew
Settle_LastCallWins(p, outcome) == outcome

\* the resolve and reject functions of a promise: the first call settles
\* it, a later call does nothing
Settle(p, outcome) == IF p.state = "pending" THEN outcome ELSE p

\* no function of FileSystem has been called, on a Linux machine whose file
\* system tells upper case from lower case
FileSystemNotUsed ==
    /\ _isCaseSensitive = Undefined
    /\ platform = "linux"
    /\ exists = [upper |-> FALSE, lower |-> TRUE]
    /\ probes = 0
    /\ fsCalls = <<>>

\* the modules of the protocol; none has been loaded
Modules == {"protocol.foldingRange", "protocol", "protocol.selectionRange"}
NothingDeclared == declared = [module \in Modules |-> 0]

\* resolveModulePath has not been called
ModulePathNotCalled ==
    /\ stage = "none"
    /\ attempts = <<>>
    /\ modulePath = NoPromise

\* nothing listens for 'SIGPIPE'
NoListeners == listeners = <<>>

\* resolve() has not been called
ResolveNotCalled ==
    /\ promise = NoPromise
    /\ child = "none"
    /\ toChild = <<>>
    /\ toParent = <<>>
    /\ errorEvents = <<>>
    /\ trace = <<>>

---------------------------------------------------------------------------
(* The converter as a state machine *)

Init ==
    /\ uriConverter \in UriStrategies
    /\ call = "none"
    /\ arg = Undefined
    /\ ret = NoOutcome
    /\ locals = Undefined
    /\ ResolveNotCalled
    /\ NoListeners
    /\ ModulePathNotCalled
    /\ NothingDeclared
    /\ FileSystemNotUsed

Idle == call = "none"

CallAsChangeTextDocumentParams ==
    /\ Idle
    /\ \E a \in ChangeArgs :
        /\ call' = "asChangeTextDocumentParams"
        /\ arg' = a
        /\ ret' = asChangeTextDocumentParams(uriConverter, a)
        /\ locals' = Undefined
        /\ UNCHANGED <<uriConverter, filesVars, protocolVars>>

CallAsCompletionItem ==
    /\ Idle
    /\ \E item \in CompletionItems \cup DataCompletionItems :
        /\ call' = "asCompletionItem"
        /\ arg' = item
        /\ ret' = Return(asCompletionItem(item))
        /\ locals' = FillLocals(item)
        /\ UNCHANGED <<uriConverter, filesVars, protocolVars>>

CallAsSaveTextDocumentParams ==
    /\ Idle
    /\ \E a \in SaveArgs :
        /\ call' = "asSaveTextDocumentParams"
        /\ arg' = a
        /\ ret' = Return(asSaveTextDocumentParams(
                             uriConverter, Get(a, "textDocument"),
                             Get(a, "includeContent")))
        /\ locals' = Undefined
        /\ UNCHANGED <<uriConverter, filesVars, protocolVars>>

CallAsWillSaveTextDocumentParams ==
    /\ Idle
    /\ \E event \in WillSaveEvents :
        /\ call' = "asWillSaveTextDocumentParams"
        /\ arg' = event
        /\ ret' = Return(asWillSaveTextDocumentParams(uriConverter, event))
        /\ locals' = Undefined
        /\ UNCHANGED <<uriConverter, filesVars, protocolVars>>

CallAsPosition ==
    /\ Idle
    /\ \E value \in Sentinels \cup HostPositions :
        /\ call' = "asPosition"
        /\ arg' = value
        /\ ret' = Return(asPosition(value))
        /\ locals' = Undefined
        /\ UNCHANGED <<uriConverter, filesVars, protocolVars>>

CallAsRange ==
    /\ Idle
    /\ \E value \in Sentinels \cup HostRanges :
        /\ call' = "asRange"
        /\ arg' = value
        /\ ret' = Return(asRange(value))
        /\ locals' = Undefined
        /\ UNCHANGED <<uriConverter, filesVars, protocolVars>>

CallAsLocation ==
    /\ Idle
    /\ \E value \in Sentinels \cup HostLocations :
        /\ call' = "asLocation"
        /\ arg' = value
        /\ ret' = Return(asLocation(uriConverter, value))
        /\ locals' = Undefined
        /\ UNCHANGED <<uriConverter, filesVars, protocolVars>>

CallAsDiagnosticSeverity ==
    /\ Idle
    /\ \E value \in HostSeverities \ {Undefined} :
        /\ call' = "asDiagnosticSeverity"
        /\ arg' = value
        /\ ret' = Return(asDiagnosticSeverity(value))
        /\ locals' = Undefined
        /\ UNCHANGED <<uriConverter, filesVars, protocolVars>>

CallAsDiagnosticTag ==
    /\ Idle
    /\ \E tag \in HostTags :
        /\ call' = "asDiagnosticTag"
        /\ arg' = tag
        /\ ret' = Return(asDiagnosticTag(tag))
        /\ locals' = Undefined
        /\ UNCHANGED <<uriConverter, filesVars, protocolVars>>

CallAsDiagnostic ==
    /\ Idle
    /\ \E item \in HostDiagnostics :
        /\ call' = "asDiagnostic"
        /\ arg' = item
        /\ ret' = Return(asDiagnostic(uriConverter, item))
        /\ locals' = Undefined
        /\ UNCHANGED <<uriConverter, filesVars, protocolVars>>

CallAsCodeActionContext ==
    /\ Idle
    /\ \E context \in Sentinels \cup HostCodeActionContexts :
        /\ call' = "asCodeActionContext"
        /\ arg' = context
        /\ ret' = Return(asCodeActionContext(uriConverter, context))
        /\ locals' = Undefined
        /\ UNCHANGED <<uriConverter, filesVars, protocolVars>>

CallAsUri ==
    /\ Idle
    /\ \E value \in Uris :
        /\ call' = "asUri"
        /\ arg' = value
        /\ ret' = Return(asUri(uriConverter, value))
        /\ locals' = Undefined
        /\ UNCHANGED <<uriConverter, filesVars, protocolVars>>

CallAsTextDocumentIdentifier ==
    /\ Idle
    /\ \E textDocument \in TextDocuments :
        /\ call' = "asTextDocumentIdentifier"
        /\ arg' = textDocument
        /\ ret' = Return(asTextDocumentIdentifier(uriConverter, textDocument))
        /\ locals' = Undefined
        /\ UNCHANGED <<uriConverter, filesVars, protocolVars>>

CallAsVersionedTextDocumentIdentifier ==
    /\ Idle
    /\ \E textDocument \in TextDocuments :
        /\ call' = "asVersionedTextDocumentIdentifier"
        /\ arg' = textDocument
        /\ ret' = Return(asVersionedTextDocumentIdentifier(
                             uriConverter, textDocument))
        /\ locals' = Undefined
        /\ UNCHANGED <<uriConverter, filesVars, protocolVars>>

CallAsOpenTextDocumentParams ==
    /\ Idle
    /\ \E textDocument \in TextDocuments :
        /\ call' = "asOpenTextDocumentParams"
        /\ arg' = textDocument
        /\ ret' = Return(asOpenTextDocumentParams(uriConverter, textDocument))
        /\ locals' = Undefined
        /\ UNCHANGED <<uriConverter, filesVars, protocolVars>>

\* asCloseTextDocumentParams, asDocumentSymbolParams, asCodeLensParams,
\* asDocumentLinkParams
CallAsIdentifierParams ==
    /\ Idle
    /\ \E f \in IdentifierParamsFunctions, textDocument \in TextDocuments :
        /\ call' = f
        /\ arg' = textDocument
        /\ ret' = Return(asIdentifierParams(uriConverter, textDocument))
        /\ locals' = Undefined
        /\ UNCHANGED <<uriConverter, filesVars, protocolVars>>

CallAsTextDocumentPositionParams ==
    /\ Idle
    /\ \E a \in PositionArgs :
        /\ call' = "asTextDocumentPositionParams"
        /\ arg' = a
        /\ ret' = Return(asTextDocumentPositionParams(
                             uriConverter, Get(a, "textDocument"),
                             Get(a, "position")))
        /\ locals' = Undefined
        /\ UNCHANGED <<uriConverter, filesVars, protocolVars>>

CallAsCompletionParams ==
    /\ Idle
    /\ \E a \in CompletionArgs :
        /\ call' = "asCompletionParams"
        /\ arg' = a
        /\ ret' = Return(asCompletionParams(
                             uriConverter, Get(a, "textDocument"),
                             Get(a, "position"), Get(a, "context")))
        /\ locals' = Undefined
        /\ UNCHANGED <<uriConverter, filesVars, protocolVars>>

CallAsReferenceParams ==
    /\ Idle
    /\ \E a \in ReferenceArgs :
        /\ call' = "asReferenceParams"
        /\ arg' = a
        /\ ret' = Return(asReferenceParams(
                             uriConverter, Get(a, "textDocument"),
                             Get(a, "position"), Get(a, "options")))
        /\ locals' = Undefined
        /\ UNCHANGED <<uriConverter, filesVars, protocolVars>>

CallAsDocumentLink ==
    /\ Idle
    /\ \E item \in HostDocumentLinks :
        /\ call' = "asDocumentLink"
        /\ arg' = item
        /\ ret' = Return(asDocumentLink(uriConverter, item))
        /\ locals' = Undefined
        /\ UNCHANGED <<uriConverter, filesVars, protocolVars>>

CallAsCodeLens ==
    /\ Idle
    /\ \E item \in HostCodeLenses :
        /\ call' = "asCodeLens"
        /\ arg' = item
        /\ ret' = Return(asCodeLens(item))
        /\ locals' = Undefined
        /\ UNCHANGED <<uriConverter, filesVars, protocolVars>>

\* the caller takes the outcome; the converter keeps nothing of the call
Done ==
    /\ ~Idle
    /\ call' = "none"
    /\ arg' = Undefined
    /\ ret' = NoOutcome
    /\ locals' = Undefined
    /\ UNCHANGED <<uriConverter, filesVars, protocolVars>>

Next ==
    \/ CallAsChangeTextDocumentParams
    \/ CallAsCompletionItem
    \/ CallAsSaveTextDocumentParams
    \/ CallAsWillSaveTextDocumentParams
    \/ CallAsPosition
    \/ CallAsRange
    \/ CallAsLocation
    \/ CallAsDiagnosticSeverity
    \/ CallAsDiagnosticTag
    \/ CallAsDiagnostic
    \/ CallAsCodeActionContext
    \/ CallAsUri
    \/ CallAsTextDocumentIdentifier
    \/ CallAsVersionedTextDocumentIdentifier
    \/ CallAsOpenTextDocumentParams
    \/ CallAsIdentifierParams
    \/ CallAsTextDocumentPositionParams
    \/ CallAsCompletionParams
    \/ CallAsReferenceParams
    \/ CallAsDocumentLink
    \/ CallAsCodeLens
    \/ Done

Spec == Init /\ [][Next]_vars

---------------------------------------------------------------------------
(* The converter and a host that keeps its objects *)

\* An array the host holds, with its identity: the conversions above read
\* the elements of an array (v) and build their arrays with Arr, which are
\* new arrays that nobody else holds and that have no id; a property that
\* is assigned an array of the host holds that very array, id included.
HostArray(id, elems) == [t |-> "Array", v |-> elems, id |-> id]

IsHostArray(x) == x.t = "Array" /\ "id" \in DOMAIN x
SameArray(x, y) == IsHostArray(x) /\ IsHostArray(y) /\ x.id = y.id

MaxArrayLen == 2

\* where a host object, and the wire value made of it, hold arrays
ArrayPaths(f) ==
    CASE f = "asCompletionItem" ->
             <<(<<"additionalTextEdits">>), (<<"commitCharacters">>),
               (<<"command", "arguments">>)>>
      [] f = "asCommand" -> <<(<<"arguments">>)>>
      [] f = "asDiagnostic" -> <<(<<"tags">>), (<<"relatedInformation">>)>>
      [] f = "asChangeTextDocumentParams" -> <<(<<"contentChanges">>)>>
      [] OTHER -> <<>>

\* what the host may push on the array at a path
ArrayElements(path) ==
    LET f == path[Len(path)]
    IN CASE f = "additionalTextEdits" ->
                {HostTextEdit(r, "import foo;") : r \in ItemRanges}
         [] f = "commitCharacters" -> {Str("."), Str(";")}
         [] f = "arguments" -> {Str("a"), Num(1)}
         [] f = "tags" -> HostTags
         [] f = "relatedInformation" -> {RelatedDeclaration, RelatedUse}
         [] f = "contentChanges" -> ContentChanges

\* o.f and o.f.g
At(o, path) ==
    IF Len(path) = 1 THEN Get(o, path[1])
    ELSE Get(Get(o, path[1]), path[2])

\* o with o.f, or o.f.g, holding value
With(o, path, value) ==
    IF Len(path) = 1
    THEN Obj(o.t, [o.v EXCEPT ![path[1]] = value])
    ELSE Obj(o.t, [o.v EXCEPT ![path[1]] =
                       Obj(@.t, [@.v EXCEPT ![path[2]] = value])])

\* w as it reads once the array `array` has changed: every array of w that
\* is that array has the new elements
RECURSIVE Aliased(_, _, _)
Aliased(w, paths, array) ==
    IF paths = <<>> THEN w
    ELSE LET rest == Aliased(w, Tail(paths), array)
         IN IF SameArray(At(rest, Head(paths)), array)
            THEN With(rest, Head(paths), array)
            ELSE rest

\* the arrays a host object starts with: empty or with one element
FirstContents(path) ==
    {<<>>} \cup {<<e>> : e \in {CHOOSE x \in ArrayElements(path) : TRUE}}

KeptCompletionItems ==
    {Obj("CompletionItem",
         [label |-> Str("fooItem"), insertText |-> Str("foo"),
          additionalTextEdits |-> HostArray(1, edits),
          commitCharacters |-> HostArray(2, chars),
          command |-> HostCommand("Run", "editor.run", HostArray(3, args))]) :
        edits \in FirstContents(<<"additionalTextEdits">>),
        chars \in FirstContents(<<"commitCharacters">>),
        args \in FirstContents(<<"arguments">>)}

KeptCommands ==
    {HostCommand("Run", "editor.run", HostArray(1, args)) :
        args \in FirstContents(<<"arguments">>)}

KeptDiagnostics ==
    {HostDiagnostic(
         HostRange(HostPosition(0, 0), HostPosition(0, 3)), "unused",
         [tags |-> HostArray(1, tags),
          relatedInformation |-> HostArray(2, related)]) :
        tags \in FirstContents(<<"tags">>),
        related \in FirstContents(<<"relatedInformation">>)}

KeptChangeEvents ==
    {Obj("TextDocumentChangeEvent",
         [document |-> TextDocument(Uri("file", "/a.ts"), 1, "abc"),
          contentChanges |-> HostArray(1, changes)]) :
        changes \in FirstContents(<<"contentChanges">>)}

KeeperCallsAsCompletionItem ==
    /\ Idle
    /\ \E item \in KeptCompletionItems :
        /\ call' = "asCompletionItem"
        /\ arg' = item
        /\ ret' = Return(asCompletionItem(item))
        /\ locals' = Undefined
        /\ UNCHANGED <<uriConverter, filesVars, protocolVars>>

KeeperCallsAsCommand ==
    /\ Idle
    /\ \E item \in KeptCommands :
        /\ call' = "asCommand"
        /\ arg' = item
        /\ ret' = Return(asCommand(item))
        /\ locals' = Undefined
        /\ UNCHANGED <<uriConverter, filesVars, protocolVars>>

KeeperCallsAsDiagnostic ==
    /\ Idle
    /\ \E item \in KeptDiagnostics :
        /\ call' = "asDiagnostic"
        /\ arg' = item
        /\ ret' = Return(asDiagnostic(uriConverter, item))
        /\ locals' = Undefined
        /\ UNCHANGED <<uriConverter, filesVars, protocolVars>>

KeeperCallsAsChangeTextDocumentParams ==
    /\ Idle
    /\ \E event \in KeptChangeEvents :
        /\ call' = "asChangeTextDocumentParams"
        /\ arg' = event
        /\ ret' = asChangeTextDocumentParams(uriConverter, event)
        /\ locals' = Undefined
        /\ UNCHANGED <<uriConverter, filesVars, protocolVars>>

\* after the call has returned, the host pushes an element on one of the
\* arrays of its object, or pops one; whoever holds that array sees it
HostMutatesArray ==
    /\ ~Idle
    /\ \E i \in 1..Len(ArrayPaths(call)) :
        LET path == ArrayPaths(call)[i]
            array == At(arg, path)
            pushed == IF Len(array.v) < MaxArrayLen
                      THEN {Append(array.v, e) : e \in ArrayElements(path)}
                      ELSE {}
            popped == IF Len(array.v) > 0
                      THEN {SubSeq(array.v, 1, Len(array.v) - 1)}
                      ELSE {}
        IN \E elems \in pushed \cup popped :
            LET mutated == [array EXCEPT !.v = elems]
            IN /\ arg' = With(arg, path, mutated)
               /\ ret' = [ret EXCEPT
                              !.value = Aliased(@, ArrayPaths(call), mutated)]
               /\ UNCHANGED <<uriConverter, call, locals, filesVars, protocolVars>>

NextOwnership ==
    \/ KeeperCallsAsCompletionItem
    \/ KeeperCallsAsCommand
    \/ KeeperCallsAsDiagnostic
    \/ KeeperCallsAsChangeTextDocumentParams
    \/ HostMutatesArray
    \/ Done

SpecOwnership == Init /\ [][NextOwnership]_vars

---------------------------------------------------------------------------
(* resolve(): the parent, the helper process and the channel between them *)

ModuleNames == {"typescript", "eslint"}

Error(message) == Obj("Error", [message |-> Str(message)])

\* the reasons resolve() rejects with
StartingFailed(moduleName) ==
    Error("Starting process to resolve node module  " \o moduleName \o " failed")
FailedToResolve(moduleName) ==
    Error("Failed to resolve module: " \o moduleName)
\* what fork throws, and what the child process object's 'error' event
\* carries when a message could not be sent
ForkError == Error("spawn EAGAIN")
ChannelError == Error("write EPIPE")

\* the messages of the channel
ResolveRequest(moduleName) == Obj("Object", [c |-> Str("rs"), a |-> Str(moduleName)])
Resolved(path) == Obj("Object", [c |-> Str("r"), s |-> Bool(TRUE), r |-> path])
NotResolved == Obj("Object", [c |-> Str("r"), s |-> Bool(FALSE)])
Exit == Obj("Object", [c |-> Str("e")])

\* what went over the channel: who did what with which message
Event(by, does, message) == [by |-> by, does |-> does, message |-> message]

\* fork(): throws, returns a child process without pid, or returns a
\* running child process
ForkOutcomes == {"throws", "no pid", "forked"}

\* where require.resolve may find a module
ModulePaths(moduleName) ==
    {Str("/work/node_modules/" \o moduleName),
     Str("/usr/lib/node_modules/" \o moduleName)}

\* NODE_PATH as the parent process has it, and as resolve() is given it
InheritedNodePaths == {Undefined, Str("/opt/node")}
NodePaths == {Undefined, Str("/work/lib")}

PathDelimiter == ":"

\* the environment of the helper: the parent's, with nodePath put before
\* the parent's NODE_PATH, and ELECTRON_RUN_AS_NODE set
NewEnv(nodePath, env) ==
    LET inherited == Get(env, "NODE_PATH")
        withNodePath ==
            IF Truthy(nodePath)
            THEN IF Truthy(inherited)
                 THEN Str(nodePath.v \o PathDelimiter \o inherited.v)
                 ELSE nodePath
            ELSE inherited
    IN Obj("Object",
           Optional("NODE_PATH", withNodePath)
           @@ "ELECTRON_RUN_AS_NODE" :> Str("1"))

\* the executor of the promise: it runs to its end when resolve() is called
CallResolve ==
    /\ promise = NoPromise
    /\ \E moduleName \in ModuleNames, nodePath \in NodePaths,
          inherited \in InheritedNodePaths, outcome \in ForkOutcomes :
        /\ call' = "resolve"
        /\ arg' = Arguments([moduleName |-> Str(moduleName),
                             nodePath |-> nodePath, cwd |-> Str("/work")])
        /\ LET env == Obj("Object", Optional("NODE_PATH", inherited))
               newEnv == NewEnv(nodePath, env)
           IN locals' =
                  Obj("Object",
                      [env |-> env, newEnv |-> newEnv]
                      @@ SetIf(Truthy(nodePath), "traced",
                               Str("NODE_PATH value is: "
                                   \o Get(newEnv, "NODE_PATH").v)))
        /\ CASE outcome = "throws" ->
                    /\ promise' = Rejected(ForkError)
                    /\ UNCHANGED <<child, toChild, trace>>
             [] outcome = "no pid" ->
                    /\ promise' = Rejected(StartingFailed(moduleName))
                    /\ UNCHANGED <<child, toChild, trace>>
             [] outcome = "forked" ->
                    /\ promise' = Pending
                    /\ child' = "running"
                    /\ toChild' = <<ResolveRequest(moduleName)>>
                    /\ trace' = <<Event("parent", "sends",
                                        ResolveRequest(moduleName))>>
        /\ UNCHANGED <<uriConverter, ret, toParent, errorEvents,
                       besidesResolve, protocolVars>>

\* the reply of the helper to a request: require.resolve finds the module
\* somewhere, or throws
RepliesTo(message) ==
    {Resolved(path) : path \in ModulePaths(Get(message, "a").v)}
    \cup {NotResolved}

\* p.on('message', ...) of the helper: it exits on 'e', replies to 'rs', and
\* ignores any other message
HelperReceives ==
    /\ child = "running"
    /\ toChild # <<>>
    /\ LET message == Head(toChild)
           received == Append(trace, Event("helper", "receives", message))
       IN CASE Get(message, "c") = Str("e") ->
                   /\ child' = "exited"
                   /\ toChild' = <<>>
                   /\ trace' = received
                   /\ UNCHANGED toParent
            [] Get(message, "c") = Str("rs") ->
                   \E reply \in RepliesTo(message) :
                       /\ toChild' = Tail(toChild)
                       /\ toParent' = Append(toParent, reply)
                       /\ trace' = Append(received,
                                          Event("helper", "sends", reply))
                       /\ UNCHANGED child
            [] OTHER ->
                   /\ toChild' = Tail(toChild)
                   /\ trace' = received
                   /\ UNCHANGED <<child, toParent>>
    /\ UNCHANGED <<converterVars, besidesResolve, protocolVars, promise, errorEvents>>

\* the helper process ends without being told to (it is killed, it runs
\* out of memory): what it had not read is lost, and the write of a lost
\* message may or may not fail with an 'error' event on the parent's side
HelperDies ==
    /\ child = "running"
    /\ child' = "died"
    /\ toChild' = <<>>
    /\ \E failed \in BOOLEAN :
           errorEvents' = IF failed /\ toChild # <<>>
                          THEN Append(errorEvents, ChannelError)
                          ELSE errorEvents
    /\ UNCHANGED <<converterVars, besidesResolve, protocolVars, promise, toParent, trace>>

\* a variant that tears the helper down after a successful reply only
Teardown_OnSuccessOnly(message) ==
    IF Get(message, "c") = Str("r") /\ Truthy(Get(message, "s"))
    THEN <<Exit>>
    ELSE <<>>

\* what the parent sends when it gets a message: 'e' for a reply, whether
\* the reply is a success or not, and nothing for anything else
Teardown(message) ==
    IF Get(message, "c") = Str("r") THEN <<Exit>> ELSE <<>>

\* cp.on('message', ...): a reply is answered by 'e' and settles the
\* promise; sending to a child process that is gone fails with an 'error'
\* event; any other message is ignored
ParentReceives ==
    /\ toParent # <<>>
    /\ LET message == Head(toParent)
           received == Append(trace, Event("parent", "receives", message))
           sent == Teardown(message)
       IN /\ toParent' = Tail(toParent)
          /\ trace' = received \o [i \in DOMAIN sent |->
                                       Event("parent", "sends", sent[i])]
          /\ IF child = "running"
             THEN /\ toChild' = toChild \o sent
                  /\ UNCHANGED errorEvents
             ELSE /\ errorEvents' = errorEvents \o
                                    [i \in DOMAIN sent |-> ChannelError]
                  /\ UNCHANGED toChild
          /\ IF Get(message, "c") = Str("r")
             THEN promise' =
                      Settle(promise,
                             IF Truthy(Get(message, "s"))
                             THEN Fulfilled(Get(message, "r"))
                             ELSE Rejected(FailedToResolve(
                                      Get(arg, "moduleName").v)))
             ELSE UNCHANGED promise
    /\ UNCHANGED <<converterVars, besidesResolve, protocolVars, child>>

\* cp.on('error', ...)
ErrorEvent ==
    /\ errorEvents # <<>>
    /\ promise' = Settle(promise, Rejected(Head(errorEvents)))
    /\ errorEvents' = Tail(errorEvents)
    /\ UNCHANGED <<converterVars, besidesResolve, protocolVars, child, toChild, toParent, trace>>

InitResolve ==
    /\ uriConverter = "nullConverter"
    /\ call = "none"
    /\ arg = Undefined
    /\ ret = NoOutcome
    /\ locals = Undefined
    /\ ResolveNotCalled
    /\ NoListeners
    /\ ModulePathNotCalled
    /\ NothingDeclared
    /\ FileSystemNotUsed

NextResolve ==
    \/ CallResolve
    \/ HelperReceives
    \/ HelperDies
    \/ ParentReceives
    \/ ErrorEvent

SpecResolve == InitResolve /\ [][NextResolve]_vars

\* A helper that does not keep to its side of the protocol and replies to
\* the request once more: the parent's listener is registered with on(),
\* so it runs for every reply.
MaxReplies == 2

HelperRepliesAgain ==
    /\ child = "running"
    /\ \E i \in DOMAIN trace :
           /\ trace[i].by = "helper" /\ trace[i].does = "sends"
    /\ Cardinality({i \in DOMAIN trace :
                        trace[i].by = "helper" /\ trace[i].does = "sends"})
           < MaxReplies
    /\ \E reply \in RepliesTo(ResolveRequest(Get(arg, "moduleName").v)) :
           /\ toParent' = Append(toParent, reply)
           /\ trace' = Append(trace, Event("helper", "sends", reply))
    /\ UNCHANGED <<converterVars, besidesResolve, protocolVars, promise, child, toChild, errorEvents>>

NextAnyHelper ==
    \/ NextResolve
    \/ HelperRepliesAgain

\* The event loops of the parent and of the helper run every listener whose
\* event is queued: a message that was sent is handled unless the process
\* that is to handle it has ended.
SpecResolveFair ==
    /\ InitResolve
    /\ [][NextAnyHelper]_vars
    /\ WF_vars(HelperReceives)
    /\ WF_vars(ParentReceives)
    /\ WF_vars(ErrorEvent)

---------------------------------------------------------------------------
(* FileSystem: isCaseSensitive and isParent *)

\* A path is the sequence of its characters.
Platforms == {"linux", "win32"}

\* fs.existsSync(__filename.toUpperCase()) and
\* fs.existsSync(__filename.toLowerCase())
ExistsAnswers == [upper : BOOLEAN, lower : BOOLEAN]

LowerCase ==
    [c \in {"W", "N", "M"} |->
        CASE c = "W" -> "w" [] c = "N" -> "n" [] c = "M" -> "m"]

toLowerCase(chars) ==
    [i \in DOMAIN chars |->
        IF chars[i] \in DOMAIN LowerCase THEN LowerCase[chars[i]]
        ELSE chars[i]]

\* the segments of a path between its separators
RECURSIVE Split(_)
Split(chars) ==
    IF chars = <<>> THEN << <<>> >>
    ELSE LET rest == Split(Tail(chars))
         IN IF Head(chars) = "/"
            THEN << <<>> >> \o rest
            ELSE << <<Head(chars)>> \o Head(rest) >> \o Tail(rest)

RECURSIVE Join(_)
Join(segments) ==
    IF segments = <<>> THEN <<>>
    ELSE IF Len(segments) = 1 THEN Head(segments)
    ELSE Head(segments) \o <<"/">> \o Join(Tail(segments))

\* path.normalize drops empty and '.' segments and resolves '..'
RECURSIVE NormalizeSegments(_, _, _)
NormalizeSegments(segments, done, isAbsolute) ==
    IF segments = <<>> THEN done
    ELSE LET segment == Head(segments)
             rest == Tail(segments)
         IN IF segment = <<>> \/ segment = <<".">>
            THEN NormalizeSegments(rest, done, isAbsolute)
            ELSE IF segment # <<".", ".">>
            THEN NormalizeSegments(rest, Append(done, segment), isAbsolute)
            ELSE IF done # <<>> /\ done[Len(done)] # <<".", ".">>
            THEN NormalizeSegments(rest, SubSeq(done, 1, Len(done) - 1),
                                   isAbsolute)
            ELSE IF isAbsolute
            THEN NormalizeSegments(rest, done, isAbsolute)
            ELSE NormalizeSegments(rest, Append(done, segment), isAbsolute)

isAbsolute(chars) == chars # <<>> /\ Head(chars) = "/"

\* path.normalize; on Windows the separators become backslashes
normalize(chars, os) ==
    LET trailing == chars # <<>> /\ chars[Len(chars)] = "/"
        inner == Join(NormalizeSegments(Split(chars), <<>>,
                                        isAbsolute(chars)))
        closed == IF inner # <<>> /\ trailing THEN inner \o <<"/">>
                  ELSE inner
        posix == IF isAbsolute(chars) THEN <<"/">> \o closed
                 ELSE IF closed = <<>> THEN <<".">>
                 ELSE closed
    IN IF os = "win32"
       THEN [i \in DOMAIN posix |-> IF posix[i] = "/" THEN "\\" ELSE posix[i]]
       ELSE posix

\* child.indexOf(parent) === 0
StartsWith(childPath, parentPath) ==
    /\ Len(parentPath) <= Len(childPath)
    /\ SubSeq(childPath, 1, Len(parentPath)) = parentPath

\* a variant that takes a memo of false for no memo
IsMemoized_WhenTrue(value) == Truthy(value)

\* _isCaseSensitive !== void 0
IsMemoized(value) == value # Undefined

\* isCaseSensitive(): what it returns, what it leaves in the memo and how
\* often it asked the file system
isCaseSensitive(memo, os, fs) ==
    IF IsMemoized(memo)
    THEN [returned |-> memo, memo |-> memo, probed |-> 0]
    ELSE IF os = "win32"
    THEN [returned |-> Bool(FALSE), memo |-> Bool(FALSE), probed |-> 0]
    ELSE LET sensitive == Bool(~fs.upper \/ ~fs.lower)
         IN [returned |-> sensitive, memo |-> sensitive, probed |-> 1]

\* isParent(parent, child), given what isCaseSensitive() returned
isParent(parentPath, childPath, caseSensitive, os) ==
    IF Truthy(caseSensitive)
    THEN StartsWith(normalize(childPath, os), normalize(parentPath, os))
    ELSE StartsWith(toLowerCase(normalize(childPath, os)),
                    toLowerCase(normalize(parentPath, os)))

MaxCalls == 3

ParentPaths == {<<"/", "w", "/", "n">>, <<"/", "w", "/", ".", "/", "N">>}
ChildPaths ==
    {<<"/", "w", "/", "n", "/", "m">>,
     <<"/", "W", "/", "n", "/", "m">>,
     <<"/", "w", "/", "n", "/", ".", ".", "/", "g", "/", "m">>}

CaseSensitiveCall(returned) ==
    [fn |-> "isCaseSensitive", returned |-> returned]
ParentCall(parentPath, childPath, returned) ==
    [fn |-> "isParent", parent |-> parentPath, child |-> childPath,
     returned |-> returned]

CallIsCaseSensitive ==
    /\ Len(fsCalls) < MaxCalls
    /\ LET answer == isCaseSensitive(_isCaseSensitive, platform, exists)
       IN /\ _isCaseSensitive' = answer.memo
          /\ probes' = probes + answer.probed
          /\ fsCalls' = Append(fsCalls, CaseSensitiveCall(answer.returned))
    /\ UNCHANGED <<converterVars, resolveVars, globalPathVars, modulePathVars,
                   protocolVars,
                   platform, exists>>

CallIsParent ==
    /\ Len(fsCalls) < MaxCalls
    /\ \E parentPath \in ParentPaths, childPath \in ChildPaths :
           LET answer == isCaseSensitive(_isCaseSensitive, platform, exists)
           IN /\ _isCaseSensitive' = answer.memo
              /\ probes' = probes + answer.probed
              /\ fsCalls' =
                     fsCalls \o
                     <<CaseSensitiveCall(answer.returned),
                       ParentCall(parentPath, childPath,
                                  Bool(isParent(parentPath, childPath,
                                                answer.returned, platform)))>>
    /\ UNCHANGED <<converterVars, resolveVars, globalPathVars, modulePathVars,
                   protocolVars,
                   platform, exists>>

\* the file system under the process changes: the volume is mounted anew
\* with other options, a file with the other spelling appears or goes
FileSystemChanges ==
    /\ \E answers \in ExistsAnswers \ {exists} : exists' = answers
    /\ UNCHANGED <<converterVars, resolveVars, globalPathVars, modulePathVars,
                   protocolVars,
                   _isCaseSensitive, platform, probes, fsCalls>>

InitFileSystem ==
    /\ uriConverter = "nullConverter"
    /\ call = "none"
    /\ arg = Undefined
    /\ ret = NoOutcome
    /\ locals = Undefined
    /\ ResolveNotCalled
    /\ NoListeners
    /\ ModulePathNotCalled
    /\ NothingDeclared
    /\ _isCaseSensitive = Undefined
    /\ platform \in Platforms
    /\ exists \in ExistsAnswers
    /\ probes = 0
    /\ fsCalls = <<>>

NextFileSystem ==
    \/ CallIsCaseSensitive
    \/ CallIsParent
    \/ FileSystemChanges

SpecFileSystem == InitFileSystem /\ [][NextFileSystem]_vars

---------------------------------------------------------------------------
(* resolveGlobalNodePath and resolveGlobalYarnPath *)

\* a string as the sequence of its characters
Text(chars) == [t |-> "string", v |-> chars]

\* a string that is not empty: what `if (stdout)` lets through
HasText(value) == value.t = "string" /\ value.v # <<>>

Whitespace == {" ", "\n", "\r"}

RECURSIVE trimStart(_)
trimStart(chars) ==
    IF chars # <<>> /\ Head(chars) \in Whitespace
    THEN trimStart(Tail(chars))
    ELSE chars

RECURSIVE trimEnd(_)
trimEnd(chars) ==
    IF chars # <<>> /\ chars[Len(chars)] \in Whitespace
    THEN trimEnd(SubSeq(chars, 1, Len(chars) - 1))
    ELSE chars

trim(chars) == trimEnd(trimStart(chars))

\* path.join: the parts that are not empty, joined and normalized
join(parts, os) ==
    normalize(Join(SelectSeq(parts, LAMBDA part : part # <<>>)), os)

Lib == <<"l", "i", "b">>
NodeModules == <<"n", "o", "d", "e", "_", "m", "o", "d", "u", "l", "e", "s">>

\* process.on and process.removeListener, which removes the instance of
\* the listener that was added last
on(registered, listener) == Append(registered, listener)

removeListener(registered, listener) ==
    LET at == {i \in DOMAIN registered : registered[i] = listener}
    IN IF at = {} THEN registered
       ELSE LET last == CHOOSE i \in at : \A j \in at : j <= i
            IN SubSeq(registered, 1, last - 1)
               \o SubSeq(registered, last + 1, Len(registered))

\* the function `handler` of a call, which no other code holds
Handler == "handler"
OtherListeners == {<<>>, <<"other">>, <<"other", "another">>}

\* the tracer argument: left out, a function that records the message, a
\* function that throws
Tracers == {"none", "records", "throws"}

\* a message built from a text and a value
Template(text, chars) ==
    Obj("Template", [text |-> Str(text), value |-> Text(chars)])

Body(outcome, traced) == [outcome |-> outcome, traced |-> traced]

\* tracer(message) inside the try block, and then what follows
Traced(tracer, message, outcome) ==
    CASE tracer = "none" -> Body(outcome, <<>>)
      [] tracer = "records" -> Body(outcome, <<message>>)
      [] tracer = "throws" -> Body(Throw("tracer"), <<>>)

\* a variant whose catch block leaves without the finally block
TryCatchFinally_NoFinallyAfterCatch(body, installed, listener) ==
    [returned |-> IF body.outcome.kind = "throw" THEN Undefined
                  ELSE body.outcome.value,
     exit |-> IF body.outcome.kind = "throw" THEN "catch" ELSE "return",
     traced |-> body.traced,
     listeners |-> IF body.outcome.kind = "throw" THEN installed
                   ELSE removeListener(installed, listener)]

\* try { body } catch (err) { return undefined; } finally {
\* process.removeListener('SIGPIPE', handler); }
TryCatchFinally(body, installed, listener) ==
    [returned |-> IF body.outcome.kind = "throw" THEN Undefined
                  ELSE body.outcome.value,
     exit |-> IF body.outcome.kind = "throw" THEN "catch" ELSE "return",
     traced |-> body.traced,
     listeners |-> removeListener(installed, listener)]

\* what spawnSync returns or throws
Spawned(stdout, stderr) ==
    Return(Obj("Object", [stdout |-> stdout, stderr |-> stderr]))
SpawnThrows == Throw("spawnSync")

PrefixOutputs ==
    {Null, Text(<<>>), Text(<<" ", "\n">>), Text(<<"/", "u", "\n">>)}
NpmOutcomes ==
    {SpawnThrows} \cup {Spawned(stdout, Text(<<>>)) : stdout \in PrefixOutputs}

resolveGlobalNodePathBody(os, tracer, spawned) ==
    IF spawned.kind = "throw" THEN Body(spawned, <<>>)
    ELSE LET stdout == Get(spawned.value, "stdout")
         IN IF ~HasText(stdout)
            THEN Traced(tracer,
                        Str("'npm config get prefix' didn't return a value."),
                        Return(Undefined))
            ELSE LET prefix == trim(stdout.v)
                 IN Traced(tracer,
                           Template("'npm config get prefix' value is: ",
                                    prefix),
                           Return(IF Len(prefix) = 0 THEN Undefined
                                  ELSE IF os = "win32"
                                  THEN Text(join(<<prefix, NodeModules>>, os))
                                  ELSE Text(join(<<prefix, Lib, NodeModules>>,
                                                 os))))

resolveGlobalNodePath(os, tracer, spawned, registered) ==
    TryCatchFinally(resolveGlobalNodePathBody(os, tracer, spawned),
                    on(registered, Handler), Handler)

\* The output of yarn is the sequence of its lines.
LogLine == "{\"type\":\"log\",\"data\":\"/y\"}"
LogLineWithoutPath == "{\"type\":\"log\",\"data\":1}"
InfoLine == "{\"type\":\"info\",\"data\":\"x\"}"
NullLine == "null"
BrokenLine == "{"
BlankLine == ""

JSONParse(line) ==
    CASE line = LogLine ->
             Return(Obj("Object", [type |-> Str("log"),
                                   data |-> Text(<<"/", "y">>)]))
      [] line = LogLineWithoutPath ->
             Return(Obj("Object", [type |-> Str("log"), data |-> Num(1)]))
      [] line = InfoLine ->
             Return(Obj("Object", [type |-> Str("info"),
                                   data |-> Text(<<"x">>)]))
      [] line = NullLine -> Return(Null)
      [] OTHER -> Throw("SyntaxError")

\* stdout.trim().split(/\r?\n/): the lines without the blank ones at either
\* end; the empty string splits into one empty line
RECURSIVE TrimmedLines(_)
TrimmedLines(lines) ==
    IF lines = <<>> THEN <<BlankLine>>
    ELSE IF Head(lines) = BlankLine THEN TrimmedLines(Tail(lines))
    ELSE IF lines[Len(lines)] = BlankLine
    THEN TrimmedLines(SubSeq(lines, 1, Len(lines) - 1))
    ELSE lines

\* the loop over the lines: the first line that parses to a log entry whose
\* data is a path ends it; a line that fails (it does not parse, it is
\* null, its data is no string) is skipped
RECURSIVE FirstLogEntry(_, _)
FirstLogEntry(lines, os) ==
    IF lines = <<>> THEN Undefined
    ELSE LET parsed == JSONParse(Head(lines))
             yarn == parsed.value
         IN IF /\ parsed.kind = "return"
               /\ yarn # Null
               /\ Get(yarn, "type") = Str("log")
               /\ Get(yarn, "data").t = "string"
            THEN Text(join(<<Get(yarn, "data").v, NodeModules>>, os))
            ELSE FirstLogEntry(Tail(lines), os)

YarnOutputs ==
    {Null, Text(<<>>), Text(<<BlankLine>>), Text(<<BrokenLine, LogLine>>),
     Text(<<NullLine, InfoLine, BlankLine>>),
     Text(<<LogLineWithoutPath, LogLine, InfoLine>>),
     Text(<<InfoLine, LogLineWithoutPath>>)}
YarnErrors == {Text(<<>>), Text(<<"e">>)}
YarnOutcomes ==
    {SpawnThrows}
    \cup {Spawned(stdout, stderr) :
              stdout \in YarnOutputs, stderr \in YarnErrors}

resolveGlobalYarnPathBody(os, tracer, spawned) ==
    IF spawned.kind = "throw" THEN Body(spawned, <<>>)
    ELSE LET stdout == Get(spawned.value, "stdout")
             stderr == Get(spawned.value, "stderr")
         IN IF ~HasText(stdout)
            THEN LET first ==
                         Traced(tracer,
                                Str("'yarn global dir' didn't return a value."),
                                Return(Undefined))
                 IN IF tracer = "records" /\ HasText(stderr)
                    THEN Body(first.outcome, Append(first.traced, stderr))
                    ELSE first
            ELSE Body(Return(FirstLogEntry(TrimmedLines(stdout.v), os)), <<>>)

resolveGlobalYarnPath(os, tracer, spawned, registered) ==
    TryCatchFinally(resolveGlobalYarnPathBody(os, tracer, spawned),
                    on(registered, Handler), Handler)

GlobalPathCall(tracer, spawned, result) ==
    /\ arg' = Arguments([tracer |-> Str(tracer)])
    /\ ret' = Return(result.returned)
    /\ locals' = Obj("Object", [spawned |-> spawned,
                                exit |-> Str(result.exit),
                                traced |-> Arr(result.traced)])
    /\ listeners' = result.listeners
    /\ UNCHANGED <<uriConverter, resolveVars, fileSystemVars,
                   modulePathVars, protocolVars>>

CallResolveGlobalNodePath ==
    /\ Idle
    /\ call' = "resolveGlobalNodePath"
    /\ \E tracer \in Tracers, spawned \in NpmOutcomes :
           GlobalPathCall(tracer, spawned,
                          resolveGlobalNodePath(platform, tracer, spawned,
                                                listeners))

CallResolveGlobalYarnPath ==
    /\ Idle
    /\ call' = "resolveGlobalYarnPath"
    /\ \E tracer \in Tracers, spawned \in YarnOutcomes :
           GlobalPathCall(tracer, spawned,
                          resolveGlobalYarnPath(platform, tracer, spawned,
                                                listeners))

\* other code of the process adds or removes its listeners
OtherListenersChange ==
    /\ Idle
    /\ \E others \in OtherListeners \ {listeners} : listeners' = others
    /\ UNCHANGED <<converterVars, resolveVars, fileSystemVars,
                   modulePathVars, protocolVars>>

InitGlobalPath ==
    /\ uriConverter = "nullConverter"
    /\ call = "none"
    /\ arg = Undefined
    /\ ret = NoOutcome
    /\ locals = Undefined
    /\ ResolveNotCalled
    /\ NoListeners
    /\ ModulePathNotCalled
    /\ NothingDeclared
    /\ _isCaseSensitive = Undefined
    /\ platform \in Platforms
    /\ exists = [upper |-> FALSE, lower |-> TRUE]
    /\ probes = 0
    /\ fsCalls = <<>>

NextGlobalPath ==
    \/ CallResolveGlobalNodePath
    \/ CallResolveGlobalYarnPath
    \/ OtherListenersChange
    \/ Done

SpecGlobalPath == InitGlobalPath /\ [][NextGlobalPath]_vars

---------------------------------------------------------------------------
(* resolveModulePath *)

WorkspaceRoot == Text(<<"/", "w">>)

\* the nodePath argument: left out, empty, relative to the workspace, absolute
ModuleNodePaths ==
    {Undefined, Text(<<>>), Text(<<"n">>), Text(<<"/", "w", "/", "n">>)}

\* where resolve() may find a module: under the node path, under the node
\* path spelled in another case, next to the node path, in the global
\* directory
FoundPaths ==
    {Text(<<"/", "w", "/", "n", "/", "m">>),
     Text(<<"/", "W", "/", "N", "/", "m">>),
     Text(<<"/", "w", "/", "n", "2", "/", "m">>),
     Text(<<"/", "u", "/", "l", "i", "b", "/", "m">>)}

\* what the promise of a resolve() call comes to
ResolveOutcomes(moduleName) ==
    {Fulfilled(found) : found \in FoundPaths}
    \cup {Rejected(FailedToResolve(moduleName)), Rejected(ForkError)}

FailedToLoad(moduleName) ==
    Error("Failed to load " \o moduleName \o " from node path location.")

\* a call of resolve() and what became of its promise
Attempt(moduleName, nodePath, cwd, outcome) ==
    [moduleName |-> moduleName, nodePath |-> nodePath, cwd |-> cwd,
     outcome |-> outcome]

\* a variant that returns what was found wherever it lies
OnResolved_Anywhere(moduleName, value, under) == Fulfilled(value)

\* the first then(): the value if it lies under the node path, a rejection
\* otherwise
OnResolved(moduleName, value, under) ==
    IF under THEN Fulfilled(value) ELSE Rejected(FailedToLoad(moduleName))

\* resolve(moduleName, resolveGlobalNodePath(tracer), workspaceRoot, tracer)
ResolveGlobally(made, moduleName, tracer, spawned) ==
    LET global == resolveGlobalNodePath(platform, tracer, spawned, listeners)
    IN /\ attempts' = Append(made,
                             Attempt(moduleName, global.returned,
                                     WorkspaceRoot, Pending))
       /\ listeners' = global.listeners
       /\ stage' = "global"

CallResolveModulePath ==
    /\ stage = "none"
    /\ call' = "resolveModulePath"
    /\ ret' = NoOutcome
    /\ modulePath' = Pending
    /\ \E moduleName \in ModuleNames, nodePath \in ModuleNodePaths,
          tracer \in Tracers \ {"throws"}, spawned \in NpmOutcomes :
        /\ arg' = Arguments([workspaceRoot |-> WorkspaceRoot,
                             moduleName |-> Str(moduleName),
                             nodePath |-> nodePath,
                             tracer |-> Str(tracer)])
        /\ IF HasText(nodePath)
           THEN LET absolute ==
                        IF isAbsolute(nodePath.v) THEN nodePath
                        ELSE Text(join(<<WorkspaceRoot.v, nodePath.v>>,
                                       platform))
                IN /\ locals' = Obj("Object", [nodePath |-> absolute])
                   /\ attempts' = <<Attempt(moduleName, absolute, absolute,
                                            Pending)>>
                   /\ stage' = "nodePath"
                   /\ UNCHANGED listeners
           ELSE /\ locals' = Obj("Object", [nodePath |-> nodePath])
                /\ ResolveGlobally(<<>>, moduleName, tracer, spawned)
    /\ UNCHANGED <<uriConverter, resolveVars, fileSystemVars, protocolVars>>

\* the promise of the resolve() call against the node path settles, and the
\* two then() callbacks run
NodePathResolveSettles ==
    /\ stage = "nodePath"
    /\ \E outcome \in ResolveOutcomes(attempts[1].moduleName),
          spawned \in NpmOutcomes :
        LET nodePath == attempts[1].nodePath
            answer == isCaseSensitive(_isCaseSensitive, platform, exists)
            under == isParent(nodePath.v, outcome.value.v, answer.returned,
                              platform)
            first == IF outcome.state = "fulfilled"
                     THEN OnResolved(attempts[1].moduleName, outcome.value,
                                     under)
                     ELSE outcome
            settled == [attempts EXCEPT ![1].outcome = outcome]
        IN /\ IF outcome.state = "fulfilled"
              THEN /\ _isCaseSensitive' = answer.memo
                   /\ probes' = probes + answer.probed
                   /\ fsCalls' =
                          fsCalls \o
                          <<CaseSensitiveCall(answer.returned),
                            ParentCall(nodePath.v, outcome.value.v,
                                       Bool(under))>>
              ELSE UNCHANGED <<_isCaseSensitive, probes, fsCalls>>
           /\ IF first.state = "fulfilled"
              THEN /\ modulePath' = first
                   /\ attempts' = settled
                   /\ stage' = "settled"
                   /\ UNCHANGED listeners
              ELSE /\ ResolveGlobally(settled, attempts[1].moduleName,
                                      Get(arg, "tracer").v, spawned)
                   /\ UNCHANGED modulePath
    /\ UNCHANGED <<converterVars, resolveVars, protocolVars, platform, exists>>

\* the promise of the resolve() call against the global path settles
GlobalResolveSettles ==
    /\ stage = "global"
    /\ \E outcome \in ResolveOutcomes(attempts[1].moduleName) :
        /\ attempts' = [attempts EXCEPT ![Len(attempts)].outcome = outcome]
        /\ modulePath' = outcome
    /\ stage' = "settled"
    /\ UNCHANGED <<converterVars, resolveVars, fileSystemVars, globalPathVars,
                   protocolVars>>

InitModulePath ==
    /\ uriConverter = "nullConverter"
    /\ call = "none"
    /\ arg = Undefined
    /\ ret = NoOutcome
    /\ locals = Undefined
    /\ ResolveNotCalled
    /\ NoListeners
    /\ ModulePathNotCalled
    /\ NothingDeclared
    /\ _isCaseSensitive = Undefined
    /\ platform \in Platforms
    /\ exists \in {[upper |-> FALSE, lower |-> TRUE],
                   [upper |-> TRUE, lower |-> TRUE]}
    /\ probes = 0
    /\ fsCalls = <<>>

NextModulePath ==
    \/ CallResolveModulePath
    \/ NodePathResolveSettles
    \/ GlobalResolveSettles

SpecModulePath == InitModulePath /\ [][NextModulePath]_vars

---------------------------------------------------------------------------
(* The requests and notifications of the protocol *)

\* new RequestType<P, R, E, RO>(method) and its kin: the method name with
\* the shapes of the parameters, the result, the error data and the
\* registration options
RequestType(method, params, result, error, options) ==
    [message |-> "request", method |-> method, params |-> params,
     result |-> result, error |-> error, registrationOptions |-> options]
RequestType0(method, result, error, options) ==
    [message |-> "request", method |-> method, params |-> "void",
     result |-> result, error |-> error, registrationOptions |-> options]
NotificationType(method, params, options) ==
    [message |-> "notification", method |-> method, params |-> params,
     result |-> "void", error |-> "void", registrationOptions |-> options]
NotificationType0(method, options) ==
    [message |-> "notification", method |-> method, params |-> "void",
     result |-> "void", error |-> "void", registrationOptions |-> options]

FoldingRangeRequest ==
    RequestType("textDocument/foldingRange",
                "FoldingRangeParams", "FoldingRange[] | null",
                "any", "FoldingRangeRegistrationOptions")

\* a variant declared under the method name of the folding range request
SelectionRangeRequest_AsFoldingRange ==
    RequestType("textDocument/foldingRange",
                "SelectionRangeParams", "SelectionRange[] | null",
                "any", "SelectionRangeRegistrationOptions")

SelectionRangeRequest ==
    RequestType("textDocument/selectionRange",
                "SelectionRangeParams", "SelectionRange[] | null",
                "any", "SelectionRangeRegistrationOptions")

\* the declarations of protocol.ts, in the order of the file
ProtocolDeclarations ==
    <<
     RequestType("client/registerCapability",
         "RegistrationParams", "void",
         "void", "void"),
     RequestType("client/unregisterCapability",
         "UnregistrationParams", "void",
         "void", "void"),
     RequestType("initialize",
         "InitializeParams & WorkDoneProgressParams", "InitializeResult",
         "InitializeError", "void"),
     NotificationType("initialized",
         "InitializedParams", "void"),
     RequestType0("shutdown", "void", "void", "void"),
     NotificationType0("exit", "void"),
     NotificationType("workspace/didChangeConfiguration",
         "DidChangeConfigurationParams", "DidChangeConfigurationRegistrationOptions"),
     NotificationType("window/showMessage",
         "ShowMessageParams", "void"),
     RequestType("window/showMessageRequest",
         "ShowMessageRequestParams", "MessageActionItem | null",
         "void", "void"),
     NotificationType("window/logMessage",
         "LogMessageParams", "void"),
     NotificationType("telemetry/event",
         "any", "void"),
     NotificationType("textDocument/didOpen",
         "DidOpenTextDocumentParams", "TextDocumentRegistrationOptions"),
     NotificationType("textDocument/didChange",
         "DidChangeTextDocumentParams", "TextDocumentChangeRegistrationOptions"),
     NotificationType("textDocument/didClose",
         "DidCloseTextDocumentParams", "TextDocumentRegistrationOptions"),
     NotificationType("textDocument/didSave",
         "DidSaveTextDocumentParams", "TextDocumentSaveRegistrationOptions"),
     NotificationType("textDocument/willSave",
         "WillSaveTextDocumentParams", "TextDocumentRegistrationOptions"),
     RequestType("textDocument/willSaveWaitUntil",
         "WillSaveTextDocumentParams", "TextEdit[] | null",
         "void", "TextDocumentRegistrationOptions"),
     NotificationType("workspace/didChangeWatchedFiles",
         "DidChangeWatchedFilesParams", "DidChangeWatchedFilesRegistrationOptions"),
     NotificationType("textDocument/publishDiagnostics",
         "PublishDiagnosticsParams", "void"),
     RequestType("textDocument/completion",
         "CompletionParams", "CompletionItem[] | CompletionList | null",
         "void", "CompletionRegistrationOptions"),
     RequestType("completionItem/resolve",
         "CompletionItem", "CompletionItem",
         "void", "void"),
     RequestType("textDocument/hover",
         "HoverParams", "Hover | null",
         "void", "HoverRegistrationOptions"),
     RequestType("textDocument/signatureHelp",
         "SignatureHelpParams", "SignatureHelp | null",
         "void", "SignatureHelpRegistrationOptions"),
     RequestType("textDocument/definition",
         "DefinitionParams", "Definition | DefinitionLink[] | null",
         "void", "DefinitionRegistrationOptions"),
     RequestType("textDocument/references",
         "ReferenceParams", "Location[] | null",
         "void", "ReferenceRegistrationOptions"),
     RequestType("textDocument/documentHighlight",
         "DocumentHighlightParams", "DocumentHighlight[] | null",
         "void", "DocumentHighlightRegistrationOptions"),
     RequestType("textDocument/documentSymbol",
         "DocumentSymbolParams", "SymbolInformation[] | DocumentSymbol[] | null",
         "void", "DocumentSymbolRegistrationOptions"),
     RequestType("workspace/symbol",
         "WorkspaceSymbolParams", "SymbolInformation[] | null",
         "void", "WorkspaceSymbolRegistrationOptions"),
     RequestType("textDocument/codeAction",
         "CodeActionParams", "(Command | CodeAction)[] | null",
         "void", "CodeActionRegistrationOptions"),
     RequestType("textDocument/codeLens",
         "CodeLensParams", "CodeLens[] | null",
         "void", "CodeLensRegistrationOptions"),
     RequestType("codeLens/resolve",
         "CodeLens", "CodeLens",
         "void", "void"),
     RequestType("textDocument/formatting",
         "DocumentFormattingParams", "TextEdit[] | null",
         "void", "DocumentFormattingRegistrationOptions"),
     RequestType("textDocument/rangeFormatting",
         "DocumentRangeFormattingParams", "TextEdit[] | null",
         "void", "DocumentRangeFormattingRegistrationOptions"),
     RequestType("textDocument/onTypeFormatting",
         "DocumentOnTypeFormattingParams", "TextEdit[] | null",
         "void", "DocumentOnTypeFormattingRegistrationOptions"),
     RequestType("textDocument/rename",
         "RenameParams", "WorkspaceEdit | null",
         "void", "RenameRegistrationOptions"),
     RequestType("textDocument/prepareRename",
         "PrepareRenameParams", "Range | { range: Range, placeholder: string } | null",
         "void", "void"),
     RequestType("textDocument/documentLink",
         "DocumentLinkParams", "DocumentLink[] | null",
         "void", "DocumentLinkRegistrationOptions"),
     RequestType("documentLink/resolve",
         "DocumentLink", "DocumentLink",
         "void", "void"),
     RequestType("workspace/executeCommand",
         "ExecuteCommandParams", "any | null",
         "void", "ExecuteCommandRegistrationOptions"),
     RequestType("workspace/applyEdit",
         "ApplyWorkspaceEditParams", "ApplyWorkspaceEditResponse",
         "void", "void")
    >>

Declarations ==
    [module \in Modules |->
        CASE module = "protocol.foldingRange" -> <<FoldingRangeRequest>>
          [] module = "protocol" -> ProtocolDeclarations
          [] module = "protocol.selectionRange" -> <<SelectionRangeRequest>>]

\* the message types declared so far
Registry ==
    UNION {{Declarations[module][i] : i \in 1..declared[module]} :
               module \in Modules}

\* A program loads the three modules in some order, one after the other;
\* a module that is loaded evaluates its declarations from top to bottom.
LoadsDeclaration ==
    /\ \E module \in Modules :
           /\ declared[module] < Len(Declarations[module])
           /\ \A other \in Modules \ {module} :
                  declared[other] \in {0, Len(Declarations[other])}
           /\ declared' = [declared EXCEPT ![module] = @ + 1]
    /\ UNCHANGED <<converterVars, filesVars>>

InitProtocol ==
    /\ uriConverter = "nullConverter"
    /\ call = "none"
    /\ arg = Undefined
    /\ ret = NoOutcome
    /\ locals = Undefined
    /\ ResolveNotCalled
    /\ NoListeners
    /\ ModulePathNotCalled
    /\ FileSystemNotUsed
    /\ NothingDeclared

NextProtocol == LoadsDeclaration

SpecProtocol == InitProtocol /\ [][NextProtocol]_vars

---------------------------------------------------------------------------
(* TextDocumentRegistrationOptions.is, DocumentSelector.is, DocumentFilter.is *)

FilterFields == {"language", "scheme", "pattern"}

\* a variant that looks at the language only
DocumentFilterIs_LanguageOnly(value) ==
    IF value \in Sentinels THEN Throw("TypeError")
    ELSE Return(Bool(IsString(Get(value, "language"))))

\* DocumentFilter.is: reading a property of null or undefined throws
DocumentFilterIs(value) ==
    IF value \in Sentinels THEN Throw("TypeError")
    ELSE Return(Bool(\/ IsString(Get(value, "language"))
                     \/ IsString(Get(value, "scheme"))
                     \/ IsString(Get(value, "pattern"))))

\* the loop of DocumentSelector.is over the elements
RECURSIVE EveryElementIs(_)
EveryElementIs(elems) ==
    IF elems = <<>> THEN Return(Bool(TRUE))
    ELSE IF IsString(Head(elems)) THEN EveryElementIs(Tail(elems))
    ELSE LET filter == DocumentFilterIs(Head(elems))
         IN IF filter.kind = "throw" THEN filter
            ELSE IF ~filter.value.v THEN Return(Bool(FALSE))
            ELSE EveryElementIs(Tail(elems))

DocumentSelectorIs(value) ==
    IF ~IsArray(value) THEN Return(Bool(FALSE))
    ELSE EveryElementIs(value.v)

\* candidate && (candidate.documentSelector === null || ...): a falsy value
\* is returned as it is
TextDocumentRegistrationOptionsIs(value) ==
    IF ~Truthy(value) THEN Return(value)
    ELSE IF Get(value, "documentSelector") = Null THEN Return(Bool(TRUE))
    ELSE DocumentSelectorIs(Get(value, "documentSelector"))

\* objects with each of language, scheme and pattern left out, a string, or
\* a number
FilterObjects ==
    {Obj("Object", Optional("language", language)
                   @@ Optional("scheme", scheme)
                   @@ Optional("pattern", pattern)) :
        language \in {Undefined, Str("typescript"), Num(1)},
        scheme \in {Undefined, Str("file"), Num(1)},
        pattern \in {Undefined, Str("*.ts"), Num(1)}}

FilterCandidates ==
    FilterObjects \cup {Undefined, Null, Num(1), Str("typescript"), Arr(<<>>)}

SelectorElements ==
    {Str("typescript"), Null, Num(1),
     Obj("Object", <<>>),
     Obj("Object", [language |-> Str("typescript")]),
     Obj("Object", [scheme |-> Str("file"), pattern |-> Num(1)]),
     Obj("Object", [language |-> Num(1)])}

MaxSelectorLen == 2

SelectorCandidates ==
    {Arr(elems) : elems \in SeqsUpTo(SelectorElements, MaxSelectorLen)}
    \cup {Undefined, Null, Str("typescript"),
          Obj("Object", [language |-> Str("typescript")])}

RegistrationOptionsCandidates ==
    {Obj("Object", Optional("documentSelector", selector)) :
         selector \in SelectorCandidates}
    \cup {Undefined, Null, Num(0), Num(1), Str(""), Str("typescript")}

CallDocumentFilterIs ==
    /\ Idle
    /\ \E value \in FilterCandidates :
        /\ call' = "DocumentFilter.is"
        /\ arg' = value
        /\ ret' = DocumentFilterIs(value)
        /\ locals' = Undefined
        /\ UNCHANGED <<uriConverter, filesVars, protocolVars>>

CallDocumentSelectorIs ==
    /\ Idle
    /\ \E value \in SelectorCandidates :
        /\ call' = "DocumentSelector.is"
        /\ arg' = value
        /\ ret' = DocumentSelectorIs(value)
        /\ locals' = Undefined
        /\ UNCHANGED <<uriConverter, filesVars, protocolVars>>

CallTextDocumentRegistrationOptionsIs ==
    /\ Idle
    /\ \E value \in RegistrationOptionsCandidates :
        /\ call' = "TextDocumentRegistrationOptions.is"
        /\ arg' = value
        /\ ret' = TextDocumentRegistrationOptionsIs(value)
        /\ locals' = Undefined
        /\ UNCHANGED <<uriConverter, filesVars, protocolVars>>

NextGuards ==
    \/ CallDocumentFilterIs
    \/ CallDocumentSelectorIs
    \/ CallTextDocumentRegistrationOptionsIs
    \/ Done

SpecGuards == InitProtocol /\ [][NextGuards]_vars

---------------------------------------------------------------------------
(* What the claims are stated in terms of *)

\* the wire value returned by the call in progress
Wire == ret.value

\* the wire range {start: {line, character}, end: {line, character}} that
\* holds the numbers of a host range
WireRangeOf(r) ==
    Obj("Object",
        [start |-> Obj("Object", [line |-> r.v.start.v.line,
                                  character |-> r.v.start.v.character]),
         end |-> Obj("Object", [line |-> r.v.end.v.line,
                                character |-> r.v.end.v.character])])

InCompletion == call = "asCompletionItem"
InChange == call = "asChangeTextDocumentParams"

ItemHasTextEdit == Get(arg, "textEdit") # Undefined
ItemHasSnippet == Get(arg, "insertText").t = "SnippetString"
ItemHasPlainInsertText == Get(arg, "insertText").t = "string"
ItemHasRange == Get(arg, "range") # Undefined
ItemFromEdit == Get(arg, "fromEdit") = Bool(TRUE)
ItemIsProtocol == arg.t = "ProtocolCompletionItem"

\* the text a client inserts for the wire item, wherever the item carries it
InsertionText ==
    IF Has(Wire, "textEdit")
    THEN Get(Get(Wire, "textEdit"), "newText")
    ELSE Get(Wire, "insertText")

---------------------------------------------------------------------------
(* C1 *)

\* C1 (as claimed): an item flagged fromEdit that has a text T and a range R
\* gets textEdit = {range: R, newText: T} and no insertText; every other
\* item gets a bare insertText and no textEdit; no wire item has both.
C1_EmissionRule ==
    InCompletion =>
        LET T == locals.final.text
            R == locals.final.range
        IN /\ (ItemFromEdit /\ T # Undefined /\ R # Undefined) =>
                  /\ Get(Wire, "textEdit")
                         = Obj("Object", [newText |-> T, range |-> R])
                  /\ ~Has(Wire, "insertText")
           /\ ~(ItemFromEdit /\ T # Undefined /\ R # Undefined) =>
                  /\ "insertText" \in DOMAIN Wire.v
                  /\ Get(Wire, "insertText") = T
                  /\ ~Has(Wire, "textEdit")
           /\ ~(Has(Wire, "textEdit") /\ Has(Wire, "insertText"))

\* C1, away from the empty text: the emission rule holds for every item
\* whose chosen text is not the empty string
C1_EmissionRuleNonEmptyText ==
    (InCompletion /\ locals.final.text # Str("")) => C1_EmissionRule

---------------------------------------------------------------------------
(* C2 *)

\* C2: whenever the host item carries a textEdit, the text chosen by the
\* first branch is textEdit.newText, the range chosen by it is the
\* converted textEdit.range and the format is PlainText, whatever
\* insertText holds; the wire item then carries that text and that format,
\* and the format is Snippet only for an item without a textEdit.
C2_TextEditFirst ==
    InCompletion =>
        /\ ItemHasTextEdit =>
              /\ locals.chosen.text = Get(arg, "textEdit").v.newText
              /\ locals.chosen.range = WireRangeOf(Get(arg, "textEdit").v.range)
              /\ locals.chosen.format = Num(1)
              /\ Get(Wire, "insertTextFormat") = Num(1)
              /\ InsertionText = Get(arg, "textEdit").v.newText
              /\ (Has(Wire, "textEdit") /\ ~ItemHasRange) =>
                    Get(Wire, "textEdit").v.range
                        = WireRangeOf(Get(arg, "textEdit").v.range)
        /\ Get(Wire, "insertTextFormat") = Num(2) => ~ItemHasTextEdit

\* C2 witness: an item with a textEdit and a snippet as insertText was
\* converted, and the wire item is plain text holding the text of the edit
C2_Witness ==
    /\ InCompletion
    /\ ItemHasTextEdit
    /\ ItemHasSnippet
    /\ Get(arg, "insertText").v.value = Str("foo($1)")
    /\ Get(Wire, "insertTextFormat") = Num(1)
    /\ InsertionText = Str("bar")

---------------------------------------------------------------------------
(* C3 *)

\* C3 (as claimed): without a textEdit, a snippet gives insertText = the
\* snippet's value and format Snippet; a plain string s gives insertText =
\* s, format PlainText and no textEdit; the format is Snippet in no other
\* case.
C3_AsClaimed ==
    (InCompletion /\ ~ItemHasTextEdit) =>
        /\ ItemHasSnippet =>
              /\ Get(Wire, "insertText") = Get(arg, "insertText").v.value
              /\ Get(Wire, "insertTextFormat") = Num(2)
        /\ ItemHasPlainInsertText =>
              /\ Get(Wire, "insertText") = Get(arg, "insertText")
              /\ Get(Wire, "insertTextFormat") = Num(1)
              /\ ~Has(Wire, "textEdit")
        /\ ~ItemHasSnippet => Get(Wire, "insertTextFormat") # Num(2)

\* C3 (amended): without a textEdit, a snippet gives the snippet's value as
\* insertion text and format Snippet; a plain string s gives s as insertion
\* text and format PlainText; the insertion text is a bare insertText, with
\* no textEdit, unless the item is flagged fromEdit and has a range, and
\* then a textEdit that is present holds the item's range; the format is
\* Snippet in no other case.
C3_SnippetOrPlain ==
    InCompletion =>
        /\ (~ItemHasTextEdit /\ ItemHasSnippet) =>
              /\ InsertionText = Get(arg, "insertText").v.value
              /\ Get(Wire, "insertTextFormat") = Num(2)
        /\ (~ItemHasTextEdit /\ ItemHasPlainInsertText) =>
              /\ InsertionText = Get(arg, "insertText")
              /\ Get(Wire, "insertTextFormat") = Num(1)
        /\ (~ItemHasTextEdit /\ ~(ItemFromEdit /\ ItemHasRange)) =>
              /\ ~Has(Wire, "textEdit")
              /\ Get(Wire, "insertText") = InsertionText
        /\ (~ItemHasTextEdit /\ Has(Wire, "textEdit")) =>
              /\ Get(Wire, "textEdit").v.range = WireRangeOf(Get(arg, "range"))
              /\ ~Has(Wire, "insertText")
        /\ Get(Wire, "insertTextFormat") = Num(2) =>
              (~ItemHasTextEdit /\ ItemHasSnippet)
        /\ Get(Wire, "insertTextFormat") \in {Num(1), Num(2)}

\* C3 witness: a snippet item flagged fromEdit with a range was converted:
\* the snippet text travels in a textEdit, with format Snippet
C3_Witness ==
    /\ InCompletion
    /\ ~ItemHasTextEdit
    /\ Get(arg, "insertText") = SnippetString("foo($1)")
    /\ ItemFromEdit
    /\ Has(Wire, "textEdit")
    /\ Get(Wire, "textEdit").v.newText = Str("foo($1)")
    /\ Get(Wire, "insertTextFormat") = Num(2)

---------------------------------------------------------------------------
(* C4 *)

---------------------------------------------------------------------------
(* C5 *)

\* C5: when the host item has a range of its own, the range chosen for the
\* wire item is that range, converted, whichever branch chose the text, and
\* the text stays the one the branch chose (textEdit.newText when there is
\* a textEdit); a textEdit on the wire then holds that range and that text.
C5_RangeOverrides ==
    (InCompletion /\ ItemHasRange) =>
        /\ locals.final.range = WireRangeOf(Get(arg, "range"))
        /\ locals.final.text = locals.chosen.text
        /\ locals.final.format = locals.chosen.format
        /\ ItemHasTextEdit =>
              locals.final.text = Get(arg, "textEdit").v.newText
        /\ Has(Wire, "textEdit") =>
              /\ Get(Wire, "textEdit").v.range = WireRangeOf(Get(arg, "range"))
              /\ Get(Wire, "textEdit").v.newText = locals.chosen.text

\* C5 witness: an item flagged fromEdit whose textEdit has another range
\* than the item was converted, and the wire textEdit has the item's range
\* and the text of the edit
C5_Witness ==
    /\ InCompletion
    /\ ItemHasTextEdit
    /\ ItemHasRange
    /\ Get(arg, "textEdit").v.range # Get(arg, "range")
    /\ Has(Wire, "textEdit")
    /\ Get(Wire, "textEdit").v.range = WireRangeOf(Get(arg, "range"))
    /\ Get(Wire, "textEdit").v.newText = Str("bar")

---------------------------------------------------------------------------
(* C6 *)

\* C6: for a host item with numeric kind k, the wire kind is the recorded
\* originalItemKind o when the item is a ProtocolCompletionItem that
\* records one, whatever k is, and k + 1 otherwise; an item without a
\* numeric kind gets no kind.
C6_KindRenumbering ==
    InCompletion =>
        LET k == Get(arg, "kind")
            o == Get(arg, "originalItemKind")
        IN /\ (IsNumber(k) /\ ItemIsProtocol /\ o # Undefined) =>
                  Get(Wire, "kind") = o
           /\ (IsNumber(k) /\ ~(ItemIsProtocol /\ o # Undefined)) =>
                  Get(Wire, "kind") = Num(k.v + 1)
           /\ ~IsNumber(k) => ~Has(Wire, "kind")

\* C6 witness: a wire-originated item that records original kind 0 and has
\* host kind 1 was converted to wire kind 0
C6_Witness ==
    /\ InCompletion
    /\ ItemIsProtocol
    /\ Get(arg, "originalItemKind") = Num(0)
    /\ Get(arg, "kind") = Num(1)
    /\ Get(Wire, "kind") = Num(0)

---------------------------------------------------------------------------
(* C7 *)

\* C7: for a wire-originated item that has a documentation, the '$string'
\* format emits the raw value unchanged, 'plaintext' and 'markdown' emit
\* {kind, value} with that kind (value: the string, or the MarkdownString's
\* text), every other format emits the placeholder string naming the
\* format; the call returns, and a markup object on the wire has one of
\* the two kinds.
C7_Documentation ==
    InCompletion =>
        LET doc == Get(arg, "documentation")
            fmt == Get(arg, "documentationFormat")
            out == Get(Wire, "documentation")
        IN /\ ret.kind = "return"
           /\ (ItemIsProtocol /\ Truthy(doc)) =>
                 /\ fmt = Str("$string") => out = doc
                 /\ fmt \in {Str("plaintext"), Str("markdown")} =>
                       /\ out.t = "Object"
                       /\ DOMAIN out.v = {"kind", "value"}
                       /\ out.v.kind = fmt
                 /\ (fmt = Str("plaintext") /\ doc.t = "string") =>
                       out.v.value = doc
                 /\ (fmt = Str("markdown") /\ doc.t = "MarkdownString") =>
                       out.v.value = doc.v.value
                 /\ fmt \notin {Str("$string"), Str("plaintext"), Str("markdown")} =>
                       /\ out.t = "string"
                       /\ out.v = "Unsupported Markup content received. Kind is: "
                                      \o ToStr(fmt)
           /\ out.t = "Object" =>
                 out.v.kind \in {Str("plaintext"), Str("markdown")}

\* C7 witness: an item whose recorded format is 'html' was converted and
\* its documentation is the placeholder string
C7_Witness ==
    /\ InCompletion
    /\ ItemIsProtocol
    /\ Get(arg, "documentationFormat") = Str("html")
    /\ Get(arg, "documentation") = Str("doc")
    /\ Get(Wire, "documentation")
           = Str("Unsupported Markup content received. Kind is: html")

---------------------------------------------------------------------------
(* C8 *)

\* the result the claims give for a whole-document input
WholeDocumentParams(doc) ==
    Obj("Object",
        [textDocument |->
             Obj("Object", [uri |-> asUri(uriConverter, doc.v.uri),
                            version |-> doc.v.version]),
         contentChanges |-> Arr(<<Obj("Object", [text |-> doc.v.text])>>)])

\* C8 (as claimed): for every whole-document input the result has
\* textDocument = {uri, version} of the document and exactly one content
\* change, {text: <the full text>}, without range and rangeLength.
C8_FullDocumentChange ==
    (InChange /\ arg.t = "TextDocument") =>
        /\ ret.kind = "return"
        /\ Wire = WholeDocumentParams(arg)

\* C8, away from version 0: the claim holds for every document whose
\* version is not 0
C8_FullDocumentChangeNonZero ==
    (InChange /\ arg.t = "TextDocument" /\ arg.v.version # Num(0)) =>
        /\ ret.kind = "return"
        /\ Wire = WholeDocumentParams(arg)

---------------------------------------------------------------------------
(* C9 *)

\* C9: for a change event with n edits the result has exactly n content
\* changes, the i-th holding the range, rangeLength and text of the i-th
\* edit, and textDocument holds the uri and version of the event's document.
C9_IncrementalChange ==
    (InChange /\ arg.t = "TextDocumentChangeEvent") =>
        LET edits == arg.v.contentChanges.v
            doc == arg.v.document
        IN /\ ret.kind = "return"
           /\ DOMAIN Wire.v = {"textDocument", "contentChanges"}
           /\ Wire.v.textDocument
                  = Obj("Object", [uri |-> asUri(uriConverter, doc.v.uri),
                                   version |-> doc.v.version])
           /\ Wire.v.contentChanges.t = "Array"
           /\ Len(Wire.v.contentChanges.v) = Len(edits)
           /\ \A i \in 1 .. Len(edits) :
                  Wire.v.contentChanges.v[i]
                      = Obj("Object",
                            [range |-> WireRangeOf(edits[i].v.range),
                             rangeLength |-> edits[i].v.rangeLength,
                             text |-> edits[i].v.text])

\* C9 witness: an event with two different edits was converted to two
\* content changes, the first one the insertion, the second one a deletion
C9_Witness ==
    /\ InChange
    /\ arg.t = "TextDocumentChangeEvent"
    /\ Len(arg.v.contentChanges.v) = 2
    /\ arg.v.contentChanges.v[1].v.text = Str("x")
    /\ arg.v.contentChanges.v[2].v.text = Str("")
    /\ ret.kind = "return"
    /\ Len(Wire.v.contentChanges.v) = 2
    /\ Wire.v.contentChanges.v[1].v.text = Str("x")
    /\ Wire.v.contentChanges.v[2].v.rangeLength = Num(3)

---------------------------------------------------------------------------
(* C10 *)

\* C10 (as claimed): the call throws 'Unsupported text document change
\* parameter' exactly for the inputs that are neither a text document nor a
\* change event, never for a text document (whatever its version, 0
\* included) nor for a change event, and a call that throws returns nothing.
C10_ThrowsExactlyForOthers ==
    InChange =>
        /\ (ret.kind = "throw")
               <=> (arg.t \notin {"TextDocument", "TextDocumentChangeEvent"})
        /\ ret.kind = "throw" =>
               ret.value = Str("Unsupported text document change parameter")
        /\ ret.kind \in {"return", "throw"}

\* C10, away from version 0: the claim holds for every input but the text
\* documents whose version is 0
C10_ThrowsExactlyForOthersNonZero ==
    (InChange /\ ~(arg.t = "TextDocument" /\ arg.v.version = Num(0))) =>
        /\ (ret.kind = "throw")
               <=> (arg.t \notin {"TextDocument", "TextDocumentChangeEvent"})
        /\ ret.kind = "throw" =>
               ret.value = Str("Unsupported text document change parameter")

---------------------------------------------------------------------------
(* C11 *)

InSave == call = "asSaveTextDocumentParams"

\* C11: the save params always carry textDocument = {uri, version} of the
\* saved document, and carry its text exactly when the caller passes
\* includeContent = true: with the flag false or left out there is no text
\* field, and there is never any other field.
C11_TextOnlyOnRequest ==
    InSave =>
        LET doc == Get(arg, "textDocument")
            flag == Get(arg, "includeContent")
        IN /\ Get(Wire, "textDocument")
                  = Obj("Object",
                        [uri |-> ApplyUriConverter(uriConverter, Get(doc, "uri")),
                         version |-> Get(doc, "version")])
           /\ "text" \in DOMAIN Wire.v <=> flag = Bool(TRUE)
           /\ flag = Bool(TRUE) => Get(Wire, "text") = Get(doc, "text")
           /\ DOMAIN Wire.v \subseteq {"textDocument", "text"}

\* a version 0 document saved with includeContent = true, sent with its text
C11_Witness ==
    /\ InSave
    /\ Get(arg, "includeContent") = Bool(TRUE)
    /\ Get(Wire, "text") = Str("abc")
    /\ Get(Get(Wire, "textDocument"), "version") = Num(0)

---------------------------------------------------------------------------
(* C12 *)

InWillSave == call = "asWillSaveTextDocumentParams"

\* C12: the will-save params are an identifier holding the uri only, and a
\* reason: Manual, AfterDelay and FocusOut go to their namesakes 1, 2 and 3,
\* every other host reason goes to Manual, so the reason is within 1..3.
C12_ReasonWithinRange ==
    InWillSave =>
        LET host == Get(arg, "reason").v
            wire == Get(Wire, "reason")
        IN /\ Get(Wire, "textDocument")
                  = Obj("Object",
                        [uri |-> ApplyUriConverter(
                                     uriConverter,
                                     Get(Get(arg, "document"), "uri"))])
           /\ DOMAIN Wire.v = {"textDocument", "reason"}
           /\ wire.t = "number"
           /\ wire.v \in 1..3
           /\ host = 1 => wire.v = 1
           /\ host = 2 => wire.v = 2
           /\ host = 3 => wire.v = 3
           /\ host \notin 1..3 => wire.v = 1

\* a will-save event whose reason is no member of the enumeration, sent as
\* Manual
C12_Witness ==
    /\ InWillSave
    /\ Get(arg, "reason") = Num(MaxReason)
    /\ Get(Wire, "reason") = Num(1)

---------------------------------------------------------------------------
(* C13 *)

\* the wire position {line, character} that holds the numbers of a host
\* position
WirePositionOf(p) ==
    Obj("Object", [line |-> p.v.line, character |-> p.v.character])

\* the wire location of a host location under the converter's URI strategy
WireLocationOf(l) ==
    Obj("Object",
        [uri |-> ApplyUriConverter(uriConverter, l.v.uri),
         range |-> WireRangeOf(l.v.range)])

\* C13: asPosition, asRange and asLocation return undefined for undefined
\* and null for null, and for a present input the wire value with the same
\* content: the same line and character, the same start and end, the uri as
\* the URI strategy renders it.
C13_SentinelsAndStructure ==
    /\ call \in {"asPosition", "asRange", "asLocation"} /\ arg \in Sentinels
           => Wire = arg
    /\ call = "asPosition" /\ arg \notin Sentinels
           => Wire = WirePositionOf(arg)
    /\ call = "asRange" /\ arg \notin Sentinels
           => Wire = WireRangeOf(arg)
    /\ call = "asLocation" /\ arg \notin Sentinels
           => Wire = WireLocationOf(arg)

\* a location of a remapped resource, converted to the wire location of the
\* same range
C13_Witness ==
    /\ call = "asLocation"
    /\ arg \notin Sentinels
    /\ uriConverter = "custom"
    /\ Get(Get(Get(Wire, "range"), "end"), "line") = Num(MaxLine)

---------------------------------------------------------------------------
(* C14 *)

InDiagnostic == call = "asDiagnostic"

\* the wire integer the protocol assigns to each host severity level
WireSeverityOf(level) ==
    CASE level = Num(CodeDiagnosticSeverity.Error) -> Num(1)
      [] level = Num(CodeDiagnosticSeverity.Warning) -> Num(2)
      [] level = Num(CodeDiagnosticSeverity.Information) -> Num(3)
      [] level = Num(CodeDiagnosticSeverity.Hint) -> Num(4)

SeverityLevels == HostSeverities \ {Undefined}

\* C14: asDiagnosticSeverity is a bijection between the four host levels
\* Error, Warning, Information, Hint and the wire integers 1, 2, 3, 4 in
\* that order (distinct levels give distinct wire values, every wire value
\* of 1..4 is the image of a level), and asDiagnostic emits exactly that
\* value as severity for a diagnostic that carries a level.
C14_SeverityBijection ==
    /\ \A a, b \in SeverityLevels :
           asDiagnosticSeverity(a) = asDiagnosticSeverity(b) => a = b
    /\ {asDiagnosticSeverity(l) : l \in SeverityLevels} = {Num(n) : n \in 1..4}
    /\ call = "asDiagnosticSeverity" => Wire = WireSeverityOf(arg)
    /\ InDiagnostic /\ Get(arg, "severity") # Undefined
           => Get(Wire, "severity") = WireSeverityOf(Get(arg, "severity"))

\* a diagnostic of level Hint, sent with severity 4
C14_Witness ==
    /\ InDiagnostic
    /\ Get(arg, "severity") = Num(CodeDiagnosticSeverity.Hint)
    /\ Get(Wire, "severity") = Num(4)

---------------------------------------------------------------------------
(* C15 *)

IsRecognizedTag(tag) ==
    tag \in {Num(CodeDiagnosticTag.Unnecessary),
             Num(CodeDiagnosticTag.Deprecated)}

\* the recognized tags of a host tag list, in its order and with its
\* multiplicity
RecognizedTags(tags) == SelectSeq(tags.v, IsRecognizedTag)

HostTagsAreList == IsArray(Get(arg, "tags"))

\* C15: the tags of a diagnostic are converted by an allow-list: the wire
\* list is the subsequence of the recognized tags (Unnecessary, Deprecated)
\* of the host list, in input order and with input multiplicity (no list
\* is sent when that subsequence is empty); an unrecognized tag is dropped,
\* is never passed through, and the conversion returns without an error.
C15_TagAllowList ==
    /\ InDiagnostic => ret.kind = "return"
    /\ InDiagnostic /\ HostTagsAreList =>
           LET recognized == RecognizedTags(Get(arg, "tags"))
           IN IF recognized # <<>>
              THEN Get(Wire, "tags") = Arr(recognized)
              ELSE ~Has(Wire, "tags")
    /\ call = "asDiagnosticTag" =>
           /\ ret.kind = "return"
           /\ Wire = IF IsRecognizedTag(arg) THEN arg ELSE Undefined

\* a tag list that holds an unrecognized tag before a recognized one, sent
\* as the list of the recognized one
C15_Witness ==
    /\ InDiagnostic
    /\ Get(arg, "tags") = Arr(<<Num(3), Num(CodeDiagnosticTag.Deprecated)>>)
    /\ Get(Wire, "tags") = Arr(<<Num(2)>>)

---------------------------------------------------------------------------
(* C16 *)

NoRecognizedTag ==
    ~HostTagsAreList \/ RecognizedTags(Get(arg, "tags")) = <<>>

\* C16 (as claimed): the wire diagnostic has no tags field at all when the
\* host diagnostic has no tags, an empty tag list or only unrecognized
\* tags; tags is never an empty list and never a null or undefined
\* placeholder.
C16_AsClaimed ==
    InDiagnostic =>
        /\ NoRecognizedTag => "tags" \notin DOMAIN Wire.v
        /\ "tags" \in DOMAIN Wire.v =>
               /\ Wire.v.tags \notin {Null, Undefined}
               /\ Wire.v.tags # Arr(<<>>)

\* C16: the tags of the wire diagnostic are never an empty list and never
\* null.  A host diagnostic without a tag list gives a wire diagnostic
\* without the tags property; a host tag list that is empty or holds only
\* unrecognized tags gives the tags property with the value undefined,
\* which is no field of the serialized diagnostic.
C16_NoEmptyTagList ==
    InDiagnostic =>
        /\ ~HostTagsAreList => "tags" \notin DOMAIN Wire.v
        /\ HostTagsAreList /\ NoRecognizedTag =>
               /\ "tags" \in DOMAIN Wire.v
               /\ Wire.v.tags = Undefined
        /\ NoRecognizedTag => ~Has(Wire, "tags")
        /\ Has(Wire, "tags") =>
               /\ IsArray(Get(Wire, "tags"))
               /\ Len(Get(Wire, "tags").v) > 0

\* a diagnostic whose only tag is unrecognized: the wire diagnostic holds
\* tags = undefined
C16_Witness ==
    /\ InDiagnostic
    /\ Get(arg, "tags") = Arr(<<Num(3)>>)
    /\ "tags" \in DOMAIN Wire.v
    /\ ~Has(Wire, "tags")

---------------------------------------------------------------------------
(* C17 *)

\* the wire related information of a host list, element by element
WireRelatedInformationOf(items) ==
    Arr([i \in 1..Len(items.v) |->
            Obj("Object",
                [message |-> items.v[i].v.message,
                 location |-> WireLocationOf(items.v[i].v.location)])])

\* what the wire diagnostic holds for an optional field of the host
\* diagnostic
WireFieldOf(f, value) ==
    CASE f = "severity" -> WireSeverityOf(value)
      [] f = "relatedInformation" -> WireRelatedInformationOf(value)
      [] OTHER -> value

IndependentFields == {"severity", "code", "relatedInformation", "source"}

RangeAndMessageSent ==
    /\ Get(Wire, "range") = WireRangeOf(Get(arg, "range"))
    /\ Get(Wire, "message") = Get(arg, "message")
    /\ DOMAIN Wire.v \subseteq {"range", "message", "tags"} \cup IndependentFields

\* C17 (as claimed): for every combination of presence of severity, code,
\* relatedInformation and source on the host diagnostic, the wire
\* diagnostic holds exactly the ones the host diagnostic has, with equal or
\* converted values; range and message are always there.
C17_AsClaimed ==
    InDiagnostic =>
        /\ RangeAndMessageSent
        /\ \A f \in IndependentFields :
               /\ f \in DOMAIN Wire.v <=> f \in DOMAIN arg.v
               /\ f \in DOMAIN arg.v => Wire.v[f] = WireFieldOf(f, arg.v[f])

\* the host diagnostic has the field, and for source it is not the empty
\* string
SentByHost(f) ==
    /\ f \in DOMAIN arg.v
    /\ f = "source" => arg.v[f] # Str("")

\* C17: severity, code and relatedInformation are sent exactly when the
\* host diagnostic has them, and source exactly when the host diagnostic
\* has a source that is not the empty string, each whatever the presence
\* of the others, with equal or converted values; range and message are
\* always there.
C17_IndependentFields ==
    InDiagnostic =>
        /\ RangeAndMessageSent
        /\ \A f \in IndependentFields :
               /\ f \in DOMAIN Wire.v <=> SentByHost(f)
               /\ SentByHost(f) => Wire.v[f] = WireFieldOf(f, arg.v[f])

\* a diagnostic that has a source and an empty related information list
\* but neither severity nor code
C17_Witness ==
    /\ InDiagnostic
    /\ DOMAIN arg.v = {"range", "message", "relatedInformation", "source"}
    /\ Get(arg, "relatedInformation") = Arr(<<>>)
    /\ DOMAIN Wire.v = {"range", "message", "relatedInformation", "source"}

---------------------------------------------------------------------------
(* C18 *)

InCodeActionContext == call = "asCodeActionContext" /\ arg \notin Sentinels

\* C18: a kind filter k of the host context is sent as the singleton list
\* only = [k]; without a kind filter the wire context has no only field at
\* all; only is never an empty list; the diagnostics are converted element
\* by element, in order.
C18_OnlyWrapsKind ==
    InCodeActionContext =>
        LET kind == Get(arg, "only")
            diagnostics == Get(arg, "diagnostics").v
            sent == Get(Wire, "diagnostics")
        IN /\ kind # Undefined
                  => Get(Wire, "only") = Arr(<<Get(kind, "value")>>)
           /\ kind = Undefined => "only" \notin DOMAIN Wire.v
           /\ "only" \in DOMAIN Wire.v => Wire.v.only # Arr(<<>>)
           /\ IsArray(sent)
           /\ Len(sent.v) = Len(diagnostics)
           /\ \A i \in 1..Len(diagnostics) :
                  /\ sent.v[i] = asDiagnostic(uriConverter, diagnostics[i])
                  /\ Get(sent.v[i], "message") = Get(diagnostics[i], "message")
           /\ DOMAIN Wire.v \subseteq {"diagnostics", "only"}

\* a context that asks for quick fixes of two diagnostics, sent with
\* only = ["quickfix"] and the two diagnostics in the host's order
C18_Witness ==
    /\ InCodeActionContext
    /\ Get(Wire, "only") = Arr(<<Str("quickfix")>>)
    /\ Len(Get(Wire, "diagnostics").v) = MaxDiagnostics
    /\ Get(Get(Wire, "diagnostics").v[1], "message") = Str("missing")
    /\ Get(Get(Wire, "diagnostics").v[2], "message") = Str("unused")

---------------------------------------------------------------------------
(* C19 *)

\* f applied to a host URI, f being the injected strategy or, when none was
\* supplied, the URI's own toString
StrategyApplied(u) ==
    IF uriConverter = "custom" THEN customConverter(u)
    ELSE Str(UriToString(u))

\* the calls whose wire value names the document at textDocument.uri
DocumentParamsFunctions ==
    IdentifierParamsFunctions \cup
    {"asOpenTextDocumentParams", "asChangeTextDocumentParams",
     "asSaveTextDocumentParams", "asWillSaveTextDocumentParams",
     "asTextDocumentPositionParams", "asCompletionParams",
     "asReferenceParams"}

\* the calls whose wire value is an identifier {uri, ...} or a location
UriHolderFunctions ==
    {"asTextDocumentIdentifier", "asVersionedTextDocumentIdentifier",
     "asLocation"}

\* the host document a call is about: the argument itself, the document
\* argument of several, or the document of an event
HostDocument ==
    CASE arg.t = "TextDocument" -> arg
      [] arg.t = "Arguments" -> Get(arg, "textDocument")
      [] OTHER -> Get(arg, "document")

Returned == ret.kind = "return" /\ Wire \notin Sentinels

\* C19: every resource identifier a converter function emits (document
\* identifiers, open/change/close/save/will-save params, position,
\* reference and completion params, symbol, code lens and link params, the
\* uri of a location, the locations of related information, the target of
\* a document link) is f applied to the host URI, f being the injected
\* strategy or toString when none was supplied.
C19_UriStrategy ==
    /\ call = "asUri" => Wire = StrategyApplied(arg)
    /\ call \in DocumentParamsFunctions /\ Returned
           => Get(Get(Wire, "textDocument"), "uri")
                  = StrategyApplied(Get(HostDocument, "uri"))
    /\ call \in UriHolderFunctions /\ Returned
           => Get(Wire, "uri") = StrategyApplied(Get(arg, "uri"))
    /\ InDiagnostic /\ Has(arg, "relatedInformation")
           => LET host == Get(arg, "relatedInformation").v
                  sent == Get(Wire, "relatedInformation").v
              IN \A i \in 1..Len(host) :
                     Get(Get(sent[i], "location"), "uri")
                         = StrategyApplied(Get(Get(host[i], "location"), "uri"))
    /\ call = "asDocumentLink" /\ Has(arg, "target")
           => Get(Wire, "target") = StrategyApplied(Get(arg, "target"))
    /\ call = "asDocumentLink" /\ ~Has(arg, "target")
           => "target" \notin DOMAIN Wire.v

\* a link to a resource, converted by a converter with an injected
\* strategy: the target is the strategy's rendering, not toString
C19_Witness ==
    /\ call = "asDocumentLink"
    /\ uriConverter = "custom"
    /\ Has(arg, "target")
    /\ Get(Wire, "target") = customConverter(Get(arg, "target"))
    /\ Get(Wire, "target") # Str(UriToString(Get(arg, "target")))

---------------------------------------------------------------------------
(* C20 *)

\* C20 (as claimed): once a conversion has returned, whatever the host does
\* to an array of its object (a completion item's commitCharacters or
\* additionalTextEdits, a command's arguments, a diagnostic's tags or
\* relatedInformation, a change event's contentChanges) leaves the wire
\* value that was returned unchanged.
C20_WireUnchangedByHost == [][HostMutatesArray => ret' = ret]_vars

\* C20 (as claimed, in terms of identity): no array of the wire value is an
\* array of the host object.
C20_NoSharedArray ==
    ~Idle =>
        \A i \in 1..Len(ArrayPaths(call)) :
            ~IsHostArray(At(Wire, ArrayPaths(call)[i]))

\* C20 (what holds): the arguments of a command are the one array the wire
\* value shares with the host object; every other array of the wire value
\* is a new one.
C20_OnlyArgumentsShared ==
    ~Idle =>
        \A i \in 1..Len(ArrayPaths(call)) :
            LET path == ArrayPaths(call)[i]
            IN IsHostArray(At(Wire, path)) => path[Len(path)] = "arguments"

---------------------------------------------------------------------------
(* C21 *)

\* the calls that may attach resolve data, and the tagged subtype of each
ResolveDataFunctions == {"asCodeLens", "asDocumentLink", "asCompletionItem"}

IsTaggedSubtype ==
    arg.t \in {"ProtocolCodeLens", "ProtocolDocumentLink",
               "ProtocolCompletionItem"}

\* C21: a wire code lens, document link or completion item has data only
\* when the host object is the tagged protocol subtype and carries data,
\* and then the wire data is the carried data; for a plain host object the
\* wire value has no data field, whatever the object holds (a data
\* property of its own included).  A tagged completion item sends any data
\* that is not undefined; a tagged lens or link sends any data that is
\* truthy.
C21_ResolveDataOnlyFromTagged ==
    call \in ResolveDataFunctions =>
        /\ "data" \in DOMAIN Wire.v =>
               /\ IsTaggedSubtype
               /\ "data" \in DOMAIN arg.v
               /\ Wire.v.data = arg.v.data
        /\ ~IsTaggedSubtype => "data" \notin DOMAIN Wire.v
        /\ IsTaggedSubtype /\ call = "asCompletionItem"
               => ("data" \in DOMAIN Wire.v <=> "data" \in DOMAIN arg.v)
        /\ IsTaggedSubtype /\ call # "asCompletionItem"
               => ("data" \in DOMAIN Wire.v <=> Truthy(Get(arg, "data")))

\* a lens that came from the server with data, sent back with that data
C21_Witness ==
    /\ call = "asCodeLens"
    /\ arg.t = "ProtocolCodeLens"
    /\ Get(arg, "data") = Obj("Object", [id |-> Num(7)])
    /\ Get(Wire, "data") = Get(arg, "data")

\* a plain lens that has a data property of its own, sent without data
C21_PlainLensWitness ==
    /\ call = "asCodeLens"
    /\ arg.t = "CodeLens"
    /\ Get(arg, "data") = Str("id-1")
    /\ "data" \notin DOMAIN Wire.v

---------------------------------------------------------------------------
(* C22 *)

ResolveCalled == promise # NoPromise

\* the messages the parent has received from the helper, in order
RepliesReceived ==
    SelectSeq(trace, LAMBDA e : e.by = "parent" /\ e.does = "receives")

\* nothing is in flight and nothing is left to handle
AtRest ==
    /\ ResolveCalled
    /\ toParent = <<>>
    /\ errorEvents = <<>>
    /\ child = "running" => toChild = <<>>

\* the three failure modes
SpawnFailed == ResolveCalled /\ trace = <<>>
ModuleUnresolved ==
    RepliesReceived # <<>> /\ Head(RepliesReceived).message = NotResolved
ChannelFailed == ResolveCalled /\ trace # <<>> /\ RepliesReceived = <<>>

SpawnReasons ==
    {ForkError} \cup {StartingFailed(moduleName) : moduleName \in ModuleNames}
UnresolvedReasons == {FailedToResolve(moduleName) : moduleName \in ModuleNames}
ChannelReasons == {ChannelError}

\* C22 (as claimed): every failure of resolve() is surfaced as a rejection
\* whose reason tells the failure mode: once nothing is left to handle, a
\* spawn failure, a failure of the channel (the helper gave no reply) and
\* an unresolved module have each rejected the promise, with reasons of
\* three disjoint kinds; the promise is neither fulfilled nor left pending.
C22_EveryFailureRejects ==
    /\ SpawnReasons \cap UnresolvedReasons = {}
    /\ SpawnReasons \cap ChannelReasons = {}
    /\ UnresolvedReasons \cap ChannelReasons = {}
    /\ AtRest /\ SpawnFailed
           => promise.state = "rejected" /\ promise.value \in SpawnReasons
    /\ AtRest /\ ModuleUnresolved
           => promise.state = "rejected" /\ promise.value \in UnresolvedReasons
    /\ AtRest /\ ChannelFailed
           => promise.state = "rejected" /\ promise.value \in ChannelReasons

\* C22 (what holds): a spawn failure and an unresolved module always
\* reject, with reasons of different kinds; a failure of the channel
\* rejects, with a reason of a third kind, when it shows as an 'error'
\* event, and never fulfils the promise.
C22_RejectsWhatItNotices ==
    /\ AtRest /\ SpawnFailed
           => promise.state = "rejected" /\ promise.value \in SpawnReasons
    /\ AtRest /\ ModuleUnresolved
           => promise.state = "rejected" /\ promise.value \in UnresolvedReasons
    /\ AtRest /\ ChannelFailed
           => \/ promise.state = "rejected" /\ promise.value \in ChannelReasons
              \/ promise.state = "pending"

---------------------------------------------------------------------------
(* C23 *)

Requests ==
    SelectSeq(trace, LAMBDA e : e.by = "parent" /\ e.does = "sends"
                                /\ Get(e.message, "c") = Str("rs"))
Teardowns ==
    SelectSeq(trace, LAMBDA e : e.by = "parent" /\ e.does = "sends"
                                /\ Get(e.message, "c") = Str("e"))
RequestsReceived ==
    SelectSeq(trace, LAMBDA e : e.by = "helper" /\ e.does = "receives"
                                /\ Get(e.message, "c") = Str("rs"))
RepliesSent ==
    SelectSeq(trace, LAMBDA e : e.by = "helper" /\ e.does = "sends"
                                /\ Get(e.message, "c") = Str("r"))
IsReplyReceived(e) ==
    e.by = "parent" /\ e.does = "receives" /\ Get(e.message, "c") = Str("r")
IsTeardownSent(e) ==
    e.by = "parent" /\ e.does = "sends" /\ e.message = Exit
Forked == child # "none"

\* C23: the channel is a request/reply protocol with teardown. Once
\* resolve() was called the parent has sent exactly one 'rs' when the
\* helper was forked and none when the spawn failed; the helper has sent
\* no more replies than it has received requests, each after the request;
\* every 'e' of the parent directly follows a reply it received, and every
\* reply it received, successful or failed, is followed by an 'e'.
C23_RequestReplyTeardown ==
    /\ ResolveCalled /\ Forked => Len(Requests) = 1
    /\ ~Forked => Len(Requests) = 0
    /\ Len(RepliesSent) <= Len(RequestsReceived)
    /\ \A i \in DOMAIN trace :
           /\ trace[i].by = "helper" /\ trace[i].does = "sends"
                  => /\ i > 1
                     /\ trace[i - 1].by = "helper"
                     /\ trace[i - 1].does = "receives"
                     /\ Get(trace[i - 1].message, "c") = Str("rs")
           /\ IsTeardownSent(trace[i])
                  => i > 1 /\ IsReplyReceived(trace[i - 1])
           /\ IsReplyReceived(trace[i])
                  => i < Len(trace) /\ IsTeardownSent(trace[i + 1])

\* the helper replied that the module was not found, and the parent has
\* told it to exit
C23_Witness ==
    /\ Len(trace) >= 2
    /\ trace[Len(trace) - 1] = Event("parent", "receives", NotResolved)
    /\ IsTeardownSent(trace[Len(trace)])
    /\ Len(Requests) = 1

\* the spawn failed and nothing was sent
C23_SpawnFailedWitness == ResolveCalled /\ ~Forked /\ trace = <<>>

---------------------------------------------------------------------------
(* C26 *)

Settled == promise.state \in {"fulfilled", "rejected"}

\* the helper ended before it handled the request
RequestNotHandled == child = "died" /\ RequestsReceived = <<>>

ResolvesWithFirstReply ==
    \A path \in UNION {ModulePaths(moduleName) : moduleName \in ModuleNames} :
        promise = Fulfilled(path)
            <=> /\ RepliesReceived # <<>>
                /\ Head(RepliesReceived).message = Resolved(path)

\* C26: the promise of resolve() settles exactly once. With a helper that
\* was forked and handles the request, the call eventually settles; the
\* promise is fulfilled with a path exactly when the first reply the parent
\* received is the successful reply with that path; and once the promise
\* is settled no later step (a second reply, an 'error' event) changes it.
C26_SettlesExactlyOnce ==
    /\ (Forked ~> (Settled \/ RequestNotHandled))
    /\ []ResolvesWithFirstReply
    /\ [](promise.state = "fulfilled"
              => promise.value \in UNION {ModulePaths(moduleName) :
                                              moduleName \in ModuleNames})
    /\ [][Settled => promise' = promise]_vars

\* the promise was fulfilled by the first reply, and the parent has handled
\* a second, different reply since
C26_Witness ==
    /\ Len(RepliesReceived) = 2
    /\ RepliesReceived[1].message # RepliesReceived[2].message
    /\ RepliesReceived[1].message # NotResolved
    /\ promise = Fulfilled(Get(RepliesReceived[1].message, "r"))

---------------------------------------------------------------------------
(* C24 *)

CaseSensitiveCalls ==
    SelectSeq(fsCalls, LAMBDA c : c.fn = "isCaseSensitive")

FirstAnswerKept ==
    /\ probes <= 1
    /\ \A i \in DOMAIN CaseSensitiveCalls :
           CaseSensitiveCalls[i].returned = CaseSensitiveCalls[1].returned
    /\ fsCalls # <<>> => _isCaseSensitive = CaseSensitiveCalls[1].returned
    /\ fsCalls = <<>> => _isCaseSensitive = Undefined /\ probes = 0

\* C24: isCaseSensitive is memoized. Over any sequence of isCaseSensitive
\* and isParent calls and changes of the file system, the file system is
\* asked at most once, and only by the first call; once set, the memo is
\* never changed; and every call returns what the first call returned.
C24_Memoized ==
    /\ []FirstAnswerKept
    /\ [][probes' # probes => fsCalls = <<>>]_vars
    /\ [][_isCaseSensitive # Undefined
              => _isCaseSensitive' = _isCaseSensitive]_vars

\* the file system has changed since the first call so that asking it again
\* would give the other answer, and a later call has returned the first one
C24_Witness ==
    /\ platform = "linux"
    /\ Len(CaseSensitiveCalls) >= 2
    /\ probes = 1
    /\ Bool(~exists.upper \/ ~exists.lower) # CaseSensitiveCalls[1].returned
    /\ CaseSensitiveCalls[Len(CaseSensitiveCalls)].returned = Bool(FALSE)
    /\ \E i \in DOMAIN fsCalls : fsCalls[i].fn = "isParent"

---------------------------------------------------------------------------
(* C25 *)

InCompletionParams == call = "asCompletionParams"

\* C25: the wire enumerations are the small integers of the protocol:
\* TextDocumentSyncKind None, Full, Incremental are 0, 1, 2; FileChangeType
\* Created, Changed, Deleted are 1, 2, 3; CompletionTriggerKind Invoked,
\* TriggerCharacter, TriggerForIncompleteCompletions are 1, 2, 3. For every
\* host trigger kind asCompletionParams sends a triggerKind within 1..3:
\* the host's TriggerCharacter and TriggerForIncompleteCompletions go to
\* their namesakes, anything else goes to Invoked.
C25_WireEnumEncodings ==
    /\ ProtoTextDocumentSyncKind.None = 0
    /\ ProtoTextDocumentSyncKind.Full = 1
    /\ ProtoTextDocumentSyncKind.Incremental = 2
    /\ ProtoFileChangeType.Created = 1
    /\ ProtoFileChangeType.Changed = 2
    /\ ProtoFileChangeType.Deleted = 3
    /\ ProtoCompletionTriggerKind.Invoked = 1
    /\ ProtoCompletionTriggerKind.TriggerCharacter = 2
    /\ ProtoCompletionTriggerKind.TriggerForIncompleteCompletions = 3
    /\ InCompletionParams =>
           LET host == Get(Get(arg, "context"), "triggerKind")
               wire == Get(Get(Wire, "context"), "triggerKind")
           IN /\ wire.t = "number"
              /\ wire.v \in 1..3
              /\ host = Num(CodeCompletionTriggerKind.TriggerCharacter)
                     => wire = Num(ProtoCompletionTriggerKind.TriggerCharacter)
              /\ host = Num(CodeCompletionTriggerKind
                                .TriggerForIncompleteCompletions)
                     => wire = Num(ProtoCompletionTriggerKind
                                       .TriggerForIncompleteCompletions)
              /\ host \notin
                     {Num(CodeCompletionTriggerKind.TriggerCharacter),
                      Num(CodeCompletionTriggerKind
                              .TriggerForIncompleteCompletions)}
                     => wire = Num(ProtoCompletionTriggerKind.Invoked)

\* a trigger kind that is no member of the host's enumeration, sent as Invoked
C25_Witness ==
    /\ InCompletionParams
    /\ Get(Get(arg, "context"), "triggerKind") = Num(MaxTriggerKind)
    /\ Get(Get(Wire, "context"), "triggerKind") = Num(1)

---------------------------------------------------------------------------
(* C28 *)

InGlobalPath == call \in {"resolveGlobalNodePath", "resolveGlobalYarnPath"}

\* C28: resolveGlobalNodePath and resolveGlobalYarnPath leave the 'SIGPIPE'
\* listeners of the process as they found them, whether they return a path,
\* return undefined because the command gave no output, or catch an
\* exception; and they return to their caller and never throw.
C28_ListenersRestored ==
    [][InGlobalPath' /\ ~InGlobalPath
           => /\ listeners' = listeners
              /\ Handler \notin {listeners'[i] : i \in DOMAIN listeners'}
              /\ ret'.kind = "return"]_vars

\* an exception was caught while other listeners were registered, and
\* undefined was returned
C28_Witness ==
    /\ InGlobalPath
    /\ Get(locals, "exit") = Str("catch")
    /\ Get(arg, "tracer") = Str("throws")
    /\ ret = Return(Undefined)
    /\ listeners = <<"other", "another">>

\* a path was returned
C28_PathWitness ==
    /\ call = "resolveGlobalYarnPath"
    /\ ret = Return(Text(<<"/", "y", "/">> \o NodeModules))
    /\ listeners = <<"other">>

---------------------------------------------------------------------------
(* C27 *)

ModulePathCalled == stage # "none"

\* what resolveGlobalNodePath may return
GlobalNodePaths ==
    {resolveGlobalNodePath(platform, tracer, spawned, <<>>).returned :
         tracer \in Tracers, spawned \in NpmOutcomes}

\* the call of resolve() against the global npm path
IsGlobalAttempt(attempt) ==
    /\ attempt.moduleName = Get(arg, "moduleName").v
    /\ attempt.nodePath \in GlobalNodePaths
    /\ attempt.cwd = Get(arg, "workspaceRoot")

\* FileSystem.isParent was asked about the node path and the path found,
\* and said yes
FoundUnderNodePath ==
    /\ attempts[1].outcome.state = "fulfilled"
    /\ fsCalls # <<>>
    /\ fsCalls[Len(fsCalls)]
           = ParentCall(attempts[1].nodePath.v, attempts[1].outcome.value.v,
                        Bool(TRUE))

\* C27: with a nodePath, resolveModulePath first resolves the module against
\* the node path, made absolute against the workspace root, with the node
\* path as cwd, and returns what was found if FileSystem.isParent says it
\* lies under the node path. If that attempt rejects or finds the module
\* elsewhere, there is exactly one more resolution, against the global npm
\* path with the workspace root as cwd, and the outcome is that of this
\* second resolution. Without a nodePath the global resolution is the only
\* one.
C27_NodePathThenGlobal ==
    ModulePathCalled =>
        LET given == Get(arg, "nodePath")
            absolute == Get(locals, "nodePath")
        IN IF HasText(given)
           THEN /\ absolute.v[1] \in {"/", "\\"}
                /\ isAbsolute(given.v) => absolute = given
                /\ ~isAbsolute(given.v)
                       => absolute = Text(join(<<Get(arg, "workspaceRoot").v,
                                                 given.v>>, platform))
                /\ attempts[1].moduleName = Get(arg, "moduleName").v
                /\ attempts[1].nodePath = absolute
                /\ attempts[1].cwd = absolute
                /\ CASE attempts[1].outcome = Pending ->
                            /\ Len(attempts) = 1
                            /\ modulePath = Pending
                     [] FoundUnderNodePath ->
                            /\ Len(attempts) = 1
                            /\ modulePath = attempts[1].outcome
                     [] OTHER ->
                            /\ Len(attempts) = 2
                            /\ IsGlobalAttempt(attempts[2])
                            /\ modulePath = attempts[2].outcome
           ELSE /\ Len(attempts) = 1
                /\ IsGlobalAttempt(attempts[1])
                /\ modulePath = attempts[1].outcome

\* the module was found, but not under the node path, which was given
\* relative to the workspace; the global resolution failed, and so has the
\* call
C27_Witness ==
    /\ ModulePathCalled
    /\ Get(arg, "nodePath") = Text(<<"n">>)
    /\ attempts[1].outcome = Fulfilled(Text(<<"/", "u", "/", "l", "i", "b",
                                              "/", "m">>))
    /\ Len(attempts) = 2
    /\ modulePath = Rejected(FailedToResolve(Get(arg, "moduleName").v))

\* the module was found under the node path spelled in another case, on a
\* file system that does not tell the two apart
C27_UnderWitness ==
    /\ ModulePathCalled
    /\ platform = "linux"
    /\ modulePath = Fulfilled(Text(<<"/", "W", "/", "N", "/", "m">>))
    /\ Len(attempts) = 1

---------------------------------------------------------------------------
(* C29 *)

\* C29: method names identify message kinds. Among the requests and
\* notifications declared so far, whatever the order in which the modules
\* were loaded, no two different ones have the same method name, so that a
\* method name goes with one shape of parameters, result and registration
\* options.
C29_MethodNamesUnique ==
    /\ \A a, b \in Registry : a.method = b.method => a = b
    /\ Cardinality({a.method : a \in Registry})
           = declared["protocol.foldingRange"] + declared["protocol"]
             + declared["protocol.selectionRange"]

\* every module is loaded: forty-two kinds under forty-two method names
C29_Witness ==
    /\ \A module \in Modules : declared[module] = Len(Declarations[module])
    /\ Cardinality(Registry) = 42
    /\ Cardinality({a.method : a \in Registry}) = 42

---------------------------------------------------------------------------
(* C30 *)

\* an object of which language, scheme or pattern is a string
IsFilterShape(value) ==
    /\ value.t \notin Primitives \cup {"Array"}
    /\ \E field \in FilterFields :
           field \in DOMAIN value.v /\ value.v[field].t = "string"

\* an array of strings and such objects
IsSelectorShape(value) ==
    /\ value.t = "Array"
    /\ \A i \in DOMAIN value.v :
           value.v[i].t = "string" \/ IsFilterShape(value.v[i])

\* the documentSelector of a value, if it is an object that has one
SelectorOf(value) ==
    IF value.t \notin Primitives \cup {"Array"}
       /\ "documentSelector" \in DOMAIN value.v
    THEN value.v.documentSelector
    ELSE Undefined

Accepted == ret = Return(Bool(TRUE))
Refused == ret = Return(Bool(FALSE))

\* C30: TextDocumentRegistrationOptions.is(v) is true exactly when
\* v.documentSelector is null or a document selector; DocumentSelector.is
\* is true exactly for the arrays of which every element is a string or a
\* document filter; DocumentFilter.is is true exactly for the objects of
\* which language, scheme or pattern is a string. A value without a
\* documentSelector and one whose selector is no array are rejected.
C30_RegistrationOptionsGuard ==
    /\ call = "DocumentFilter.is" => (Accepted <=> IsFilterShape(arg))
    /\ call = "DocumentSelector.is" => (Accepted <=> IsSelectorShape(arg))
    /\ call = "TextDocumentRegistrationOptions.is" =>
           /\ Accepted <=> \/ Truthy(arg) /\ SelectorOf(arg) = Null
                           \/ IsSelectorShape(SelectorOf(arg))
           /\ Truthy(arg) /\ SelectorOf(arg) = Undefined => Refused
           /\ Truthy(arg) /\ SelectorOf(arg) \notin {Undefined, Null}
                  /\ SelectorOf(arg).t # "Array" => Refused

\* a selector of a string and a filter that has a scheme only is accepted
C30_Witness ==
    /\ call = "TextDocumentRegistrationOptions.is"
    /\ SelectorOf(arg)
           = Arr(<<Str("typescript"),
                   Obj("Object", [scheme |-> Str("file"),
                                  pattern |-> Num(1)])>>)
    /\ Accepted

\* a value without documentSelector is rejected
C30_MissingWitness ==
    /\ call = "TextDocumentRegistrationOptions.is"
    /\ arg = Obj("Object", <<>>)
    /\ Refused

====
